---- MODULE Spec2Model ----
(***************************************************************************)
(* A model of the OpenAPI 3.x <-> Swagger 2.0 conversion engine of         *)
(* src/src/lib/converter.ts (the second, complete copy of the engine in    *)
(* that file, lines 831-2113).                                             *)
(*                                                                         *)
(* Documents are JavaScript values.  A value is a record tagged by t:      *)
(*   undef | null | bool(b) | num(n) | str(s) | arr(a) | obj(kv) | thrown  *)
(* A string is a sequence of lexical tokens; the tokens are cut so that    *)
(* every substring the code searches for ('3.', '#/components/schemas/',   *)
(* 'Simplified from a complex', ...) is a token of its own.  An object is  *)
(* the sequence of its <<key, value>> pairs in Object.entries order, so    *)
(* that "first declared" and the order of a for..of loop are those of the  *)
(* code.  thrown marks the place where the code raised an exception.       *)
(***************************************************************************)
EXTENDS Integers, Sequences, FiniteSets, TLC

VARIABLES
  yamlContent,  \* the input text handed to the engine
  direction,    \* the direction of the last convertSpecification call
  outcome,      \* what the last convertSpecification call returned or threw
  specType,     \* what the last detectSpecType call returned
  page          \* the state of the page component that calls the engine

vars == <<yamlContent, direction, outcome, specType, page>>

-----------------------------------------------------------------------------
(* JavaScript values *)

Undef == [t |-> "undef"]
Null == [t |-> "null"]
Thrown == [t |-> "thrown"]
Bool(b) == [t |-> "bool", b |-> b]
Num(n) == [t |-> "num", n |-> n]
Str(s) == [t |-> "str", s |-> s]
Arr(a) == [t |-> "arr", a |-> a]
Obj(kv) == [t |-> "obj", kv |-> kv]

\* a one-token string
S1(x) == Str(<<x>>)
EmptyObj == Obj(<<>>)

IsObj(v) == v.t = "obj"
IsArr(v) == v.t = "arr"
IsStr(v) == v.t = "str"
Nullish(v) == v.t \in {"undef", "null"}

\* ToBoolean
Truthy(v) ==
  CASE v.t = "undef" -> FALSE
    [] v.t = "null" -> FALSE
    [] v.t = "bool" -> v.b
    [] v.t = "num" -> v.n # 0
    [] v.t = "str" -> v.s # <<>>
    [] OTHER -> TRUE

\* typeof v === 'object' (true of null, of arrays and of objects)
TypeofObject(v) == v.t \in {"null", "arr", "obj"}

HasKey(o, k) == o.t = "obj" /\ \E i \in 1..Len(o.kv) : o.kv[i][1] = k

KeyIndex(o, k) == CHOOSE i \in 1..Len(o.kv) : o.kv[i][1] = k

\* o.k / o[k] on a value that is neither null nor undefined
Get(o, k) ==
  CASE o.t # "obj" -> Undef
    [] \E i \in 1..Len(o.kv) : o.kv[i][1] = k -> o.kv[KeyIndex(o, k)][2]
    [] OTHER -> Undef

\* o[k] = v : an existing key keeps its place, a new key goes last
Put(o, k, v) ==
  IF o.t = "obj" /\ \E i \in 1..Len(o.kv) : o.kv[i][1] = k
    THEN Obj([o.kv EXCEPT ![KeyIndex(o, k)] = <<k, v>>])
    ELSE Obj(Append(o.kv, <<k, v>>))

\* if (c) o[k] = v
PutIf(c, o, k, v) == IF c THEN Put(o, k, v) ELSE o

\* delete o[k]
Del(o, k) == Obj(SelectSeq(o.kv, LAMBDA p : p[1] # k))

\* v || {}
OrEmptyObj(v) == IF Truthy(v) THEN v ELSE EmptyObj

\* the entries of a value as Object.entries gives them (none for a scalar)
Entries(o) == IF IsObj(o) THEN o.kv ELSE <<>>

\* the items of a list (none when it is absent)
Items(a) == IF IsArr(a) THEN a.a ELSE <<>>

\* Object.keys(o)
Keys(o) == [i \in 1..Len(o.kv) |-> o.kv[i][1]]

\* v === 'x' for a one-token literal
IsLit(v, x) == v.t = "str" /\ v.s = <<x>>

RECURSIVE PutAll(_, _, _)
\* Object.assign(o, src) from entry i on
PutAll(o, src, i) ==
  IF i > Len(src.kv) THEN o
  ELSE PutAll(Put(o, src.kv[i][1], src.kv[i][2]), src, i + 1)

-----------------------------------------------------------------------------
(* Strings *)

ModernPrefix == "#/components/schemas/"
LegacyPrefix == "#/definitions/"

\* s.startsWith(tok)
StartsWith(s, tok) == Len(s) > 0 /\ s[1] = tok

\* s.includes(sub) for a token sequence sub
Includes(s, sub) ==
  \E i \in 1..(Len(s) - Len(sub) + 1) : SubSeq(s, i, i + Len(sub) - 1) = sub

\* s.replace(from, to) : String.prototype.replace with a string pattern
\* replaces the first occurrence only
Replace(s, from, to) ==
  IF \E i \in 1..Len(s) : s[i] = from
    THEN LET i == CHOOSE j \in 1..Len(s) : s[j] = from /\ \A h \in 1..(j - 1) : s[h] # from
         IN [s EXCEPT ![i] = to]
    ELSE s

\* s + t
Concat(s, t) == s \o t

RECURSIVE JoinTokens(_, _)
\* list.join(sep) for a list of token sequences
JoinTokens(list, sep) ==
  IF list = <<>> THEN <<>>
  ELSE IF Len(list) = 1 THEN list[1]
  ELSE list[1] \o <<sep>> \o JoinTokens(Tail(list), sep)

RECURSIVE Stringify(_)
RECURSIVE StringifyItems(_, _)
RECURSIVE StringifyPairs(_, _)
\* JSON.stringify(v), as tokens
Stringify(v) ==
  CASE v.t = "str" -> <<"\"">> \o v.s \o <<"\"">>
    [] v.t = "num" -> <<ToString(v.n)>>
    [] v.t = "bool" -> <<IF v.b THEN "true" ELSE "false">>
    [] v.t = "arr" -> <<"[">> \o StringifyItems(v.a, 1) \o <<"]">>
    [] v.t = "obj" -> <<"{">> \o StringifyPairs(v.kv, 1) \o <<"}">>
    [] OTHER -> <<"null">>

StringifyItems(a, i) ==
  IF i > Len(a) THEN <<>>
  ELSE (IF i > 1 THEN <<",">> ELSE <<>>) \o Stringify(a[i]) \o StringifyItems(a, i + 1)

StringifyPairs(kv, i) ==
  IF i > Len(kv) THEN <<>>
  ELSE (IF i > 1 THEN <<",">> ELSE <<>>) \o <<"\"", kv[i][1], "\"", ":">>
       \o Stringify(kv[i][2]) \o StringifyPairs(kv, i + 1)

\* (v || '') for a description
OrEmpty(v) == IF Truthy(v) /\ IsStr(v) THEN v.s ELSE <<>>

RECURSIVE ContainsThrown(_)
\* an exception was raised while this value was being built
ContainsThrown(v) ==
  CASE v.t = "thrown" -> TRUE
    [] v.t = "arr" -> \E i \in 1..Len(v.a) : ContainsThrown(v.a[i])
    [] v.t = "obj" -> \E i \in 1..Len(v.kv) : ContainsThrown(v.kv[i][2])
    [] OTHER -> FALSE

\* the place of a raised exception inside a value under construction
Raise(o) == Put(o, "!thrown", Thrown)

-----------------------------------------------------------------------------
(* Reference & composition rewriter (modern -> legacy) *)

\* some enum item is an array or a non-null object
SomeComplexItem(enum) ==
  \E i \in 1..Len(enum.a) : enum.a[i].t \in {"arr", "obj"}

hasInvalidEnumValues(schema) ==
  IF ~Truthy(schema) \/ ~Truthy(Get(schema, "enum")) \/ ~IsArr(Get(schema, "enum"))
    THEN FALSE
  ELSE IF IsLit(Get(schema, "type"), "array") THEN SomeComplexItem(Get(schema, "enum"))
  ELSE IF IsLit(Get(schema, "type"), "object") THEN SomeComplexItem(Get(schema, "enum"))
  ELSE FALSE

EnumNote(enum) ==
  <<" (", "Simplified from a schema with complex enum values: ">> \o Stringify(enum)
    \o <<". Original enum values cannot be directly represented in Swagger 2.0.)">>

simplifyInvalidEnumSchema(schema) ==
  LET simplified == Del(schema, "enum")
  IN Put(simplified, "description",
         Str(Concat(OrEmpty(Get(simplified, "description")), EnumNote(Get(schema, "enum")))))

preferredTypeOrders == <<"boolean", "string", "integer", "number", "array", "object">>

Infinity == 99

\* a.type ? preferredTypeOrders.indexOf(a.type) : Infinity
TypeIndex(a) ==
  LET ty == Get(a, "type")
  IN IF ~Truthy(ty) THEN Infinity
     ELSE IF \E i \in 1..Len(preferredTypeOrders) : IsLit(ty, preferredTypeOrders[i])
       THEN (CHOOSE i \in 1..Len(preferredTypeOrders) : IsLit(ty, preferredTypeOrders[i])) - 1
     ELSE -1

\* [...list].sort(by TypeIndex)[0] : the sort is stable, so the head is the
\* first member of least index
SortedHead(list) ==
  LET i == CHOOSE j \in 1..Len(list) :
             /\ \A h \in 1..Len(list) : TypeIndex(list[j]) <= TypeIndex(list[h])
             /\ \A h \in 1..(j - 1) : TypeIndex(list[h]) > TypeIndex(list[j])
  IN list[i]

\* list.find(P)
FindFirst(list, P(_)) ==
  IF \E i \in 1..Len(list) : P(list[i])
    THEN list[CHOOSE i \in 1..Len(list) : P(list[i]) /\ \A h \in 1..(i - 1) : ~P(list[h])]
    ELSE Undef

IsNullSchema(s) == IsLit(Get(s, "type"), "null")

NonNullSchemas(schemas) == SelectSeq(schemas, LAMBDA s : ~IsNullSchema(s))

HasNullType(schemas) == \E i \in 1..Len(schemas) : IsNullSchema(schemas[i])

\* the member a union with several non-null members is reduced to
ChosenSchema(nonNull) ==
  LET hasRef == \E i \in 1..Len(nonNull) : Truthy(Get(nonNull[i], "$ref"))
      hasString == \E i \in 1..Len(nonNull) : IsLit(Get(nonNull[i], "type"), "string")
      hasInteger == \E i \in 1..Len(nonNull) : IsLit(Get(nonNull[i], "type"), "integer")
  IN IF Len(nonNull) = 2 /\ hasRef /\ hasString
       THEN FindFirst(nonNull, LAMBDA s : Truthy(Get(s, "$ref")))
     ELSE IF Len(nonNull) = 2 /\ hasString /\ hasInteger
       THEN FindFirst(nonNull, LAMBDA s : IsLit(Get(s, "type"), "string"))
     ELSE SortedHead(nonNull)

SimplifiedMarker == <<"Simplified from a complex">>

\* s.type || (s.$ref ? 'reference type' : 'unspecified type')
TypeLabel(s) ==
  IF Truthy(Get(s, "type")) /\ IsStr(Get(s, "type")) THEN Get(s, "type").s
  ELSE IF Truthy(Get(s, "$ref")) THEN <<"reference type">>
  ELSE <<"unspecified type">>

SimplificationMessage(key, nonNull) ==
  <<" (">> \o SimplifiedMarker \o <<" ", key, " structure with multiple possible types: ">>
    \o JoinTokens([i \in 1..Len(nonNull) |-> TypeLabel(nonNull[i])], ", ")
    \o <<". Chosen representation may not capture all valid values.)">>

UnmappedNote(key) ==
  <<" (">> \o SimplifiedMarker
    \o <<" ", key, " structure that couldn't be mapped to a specific type in Swagger 2.0.)">>

NotNote ==
  <<" (Original schema contained \"not\" constraints that cannot be represented in Swagger 2.0.)">>

\* result.description = (result.description || '') + note
AppendDescription(result, note) ==
  Put(result, "description", Str(Concat(OrEmpty(Get(result, "description")), note)))

RECURSIVE fixSwagger2References(_)
RECURSIVE FixEntries(_, _, _, _)
RECURSIVE SpliceNullable(_, _, _)
RECURSIVE SpliceChosen(_, _, _, _)
RECURSIVE MergeMember(_, _, _)
RECURSIVE MergeAllOf(_, _, _, _)
RECURSIVE ApplyMerged(_, _, _)

\* $ref: value.replace('#/components/schemas/', '#/definitions/')
RewriteRef(value) == Str(Replace(value.s, ModernPrefix, LegacyPrefix))

\* the nullable case: every field of the one non-null member goes onto the
\* parent through the rewriter
SpliceNullable(result, member, i) ==
  IF ~IsObj(member) \/ i > Len(member.kv) THEN result
  ELSE SpliceNullable(Put(result, member.kv[i][1], fixSwagger2References(member.kv[i][2])),
                      member, i + 1)

\* one field <<k, v>> of the chosen member goes onto the parent
SpliceField(result, k, v, key) ==
  IF k = "$ref" /\ IsStr(v) THEN Put(result, k, RewriteRef(v))
  ELSE IF k # key /\ ~HasKey(result, k) THEN Put(result, k, fixSwagger2References(v))
  ELSE IF k = "description" /\ Truthy(Get(result, "description")) /\ IsStr(v)
    THEN IF ~Includes(OrEmpty(Get(result, "description")), SimplifiedMarker)
           THEN Put(result, "description",
                    Str(OrEmpty(Get(result, "description")) \o <<" | From ", key, ": ">> \o v.s))
           ELSE result
  ELSE IF ~HasKey(result, k) THEN Put(result, k, fixSwagger2References(v))
  ELSE result

\* the fields of the chosen member are spliced onto the parent
SpliceChosen(result, chosen, i, key) ==
  IF ~IsObj(chosen) \/ i > Len(chosen.kv) THEN result
  ELSE SpliceChosen(SpliceField(result, chosen.kv[i][1], chosen.kv[i][2], key),
                    chosen, i + 1, key)

\* if (!result.description || !result.description.includes(msg)) append msg
WithMessage(result, msg) ==
  IF ~Truthy(Get(result, "description")) \/ ~Includes(OrEmpty(Get(result, "description")), msg)
    THEN AppendDescription(result, msg)
    ELSE result

\* the generic object a union falls back to
UnmappedUnion(result, key) ==
  AppendDescription(Put(result, "type", S1("object")), UnmappedNote(key))

\* the union branch once its members are split into null and non-null ones
ReduceUnion(result, key, nonNullSchemas, hasNullType) ==
  IF Len(nonNullSchemas) = 1 /\ hasNullType
    THEN PutIf(IsLit(Get(nonNullSchemas[1], "type"), "boolean"),
               Put(SpliceNullable(result, nonNullSchemas[1], 1), "x-nullable", Bool(TRUE)),
               "type", S1("boolean"))
  ELSE IF Len(nonNullSchemas) > 0
    THEN IF ~Truthy(ChosenSchema(nonNullSchemas))
           THEN PutIf(hasNullType, UnmappedUnion(result, key), "x-nullable", Bool(TRUE))
           ELSE PutIf(hasNullType,
                      WithMessage(SpliceChosen(result, ChosenSchema(nonNullSchemas), 1, key),
                                  SimplificationMessage(key, nonNullSchemas)),
                      "x-nullable", Bool(TRUE))
  ELSE UnmappedUnion(result, key)

\* anyOf / oneOf
FixUnion(result, key, value) ==
  IF ~IsArr(value) \/ \E i \in 1..Len(value.a) : Nullish(value.a[i]) THEN Raise(result)
  ELSE ReduceUnion(result, key, NonNullSchemas(value.a), HasNullType(value.a))

\* mergedSchema.properties = mergedSchema.properties || {}; Object.assign(...)
MergeProperties(merged, propValue) ==
  IF ~IsObj(propValue) THEN PutIf(~Truthy(Get(merged, "properties")), merged, "properties", EmptyObj)
  ELSE Put(merged, "properties", PutAll(OrEmptyObj(Get(merged, "properties")), propValue, 1))

\* mergedSchema.required = [...(mergedSchema.required || []), ...propValue]
MergeRequired(merged, propValue) ==
  Put(merged, "required", Arr(Items(Get(merged, "required")) \o propValue.a))

\* one non-reference member of an allOf is merged into mergedSchema
MergeMember(merged, schema, i) ==
  IF ~IsObj(schema) \/ i > Len(schema.kv) THEN merged
  ELSE MergeMember(
         IF schema.kv[i][1] = "properties" /\ TypeofObject(schema.kv[i][2])
           THEN MergeProperties(merged, schema.kv[i][2])
         ELSE IF schema.kv[i][1] = "required" /\ IsArr(schema.kv[i][2])
           THEN MergeRequired(merged, schema.kv[i][2])
         ELSE Put(merged, schema.kv[i][1], schema.kv[i][2]),
         schema, i + 1)

\* the loop over the members of an allOf: <<mergedSchema, refSchemas>>
MergeAllOf(members, i, merged, refs) ==
  IF i > Len(members) THEN <<merged, refs>>
  ELSE IF Truthy(Get(members[i], "$ref"))
    THEN MergeAllOf(members, i + 1, merged, Append(refs, fixSwagger2References(members[i])))
  ELSE MergeAllOf(members, i + 1, MergeMember(merged, members[i], 1), refs)

\* the merged fields go onto the parent through the rewriter
ApplyMerged(result, merged, i) ==
  IF i > Len(merged.kv) THEN result
  ELSE IF merged.kv[i][1] # "allOf"
    THEN ApplyMerged(Put(result, merged.kv[i][1], fixSwagger2References(merged.kv[i][2])),
                     merged, i + 1)
  ELSE ApplyMerged(result, merged, i + 1)

\* the parent once the members are merged: m is <<mergedSchema, refSchemas>>
ApplyAllOf(result, m) ==
  PutIf(Len(m[2]) > 0, ApplyMerged(result, m[1], 1), "allOf", Arr(m[2]))

\* allOf
FixAllOf(result, value) ==
  IF ~IsArr(value) \/ \E i \in 1..Len(value.a) : Nullish(value.a[i]) THEN Raise(result)
  ELSE ApplyAllOf(result, MergeAllOf(value.a, 1, EmptyObj, <<>>))

\* if (!result.type) result.type = 'object'
DefaultObject(result) == PutIf(~Truthy(Get(result, "type")), result, "type", S1("object"))

\* not
FixNot(result) == DefaultObject(AppendDescription(result, NotNote))

\* the branch of the loop body taken for the entry <<key, value>> of obj
Branch(obj, key, value) ==
  CASE key = "$ref" /\ IsStr(value) -> "ref"
    [] key = "enum" /\ hasInvalidEnumValues(obj) -> "continue"
    [] key = "anyOf" \/ key = "oneOf" -> "union"
    [] key = "allOf" -> "allOf"
    [] key = "not" -> "not"
    [] hasInvalidEnumValues(obj) -> "return"
    [] OTHER -> "recurse"

\* the loop body for the entry <<key, value>> of obj, result so far; rewritten
\* is fixSwagger2References(value)
FixEntry(obj, key, value, rewritten, result) ==
  CASE Branch(obj, key, value) = "ref" -> Put(result, key, RewriteRef(value))
    [] Branch(obj, key, value) = "continue" -> result
    [] Branch(obj, key, value) = "union" -> FixUnion(result, key, value)
    [] Branch(obj, key, value) = "allOf" -> FixAllOf(result, value)
    [] Branch(obj, key, value) = "not" -> FixNot(result)
    [] Branch(obj, key, value) = "return" -> simplifyInvalidEnumSchema(obj)
    [] OTHER -> Put(result, key, rewritten)

\* the entry the loop goes on with: none after a return
NextEntry(obj, i) ==
  IF Branch(obj, obj.kv[i][1], obj.kv[i][2]) = "return" THEN Len(obj.kv) + 1 ELSE i + 1

\* the for loop over Object.entries(obj), from entry i on, result so far; a
\* raised exception ends it
FixEntries(obj, rewritten, i, result) ==
  IF i > Len(obj.kv) \/ ContainsThrown(result) THEN result
  ELSE FixEntries(obj, rewritten, NextEntry(obj, i),
                  FixEntry(obj, obj.kv[i][1], obj.kv[i][2], rewritten[i], result))

\* fixSwagger2References of the values the last branch of the loop recurses
\* into; they do not depend on the result so far
Recursed(obj) ==
  [i \in 1..Len(obj.kv) |->
     IF Branch(obj, obj.kv[i][1], obj.kv[i][2]) = "recurse"
       THEN fixSwagger2References(obj.kv[i][2])
       ELSE Undef]

\* obj.map(item => fixSwagger2References(item))
FixItems(items) == SubSeq([i \in 1..Len(items) |-> fixSwagger2References(items[i])], 1, Len(items))

\* the object branch
FixObject(obj, rewritten) ==
  IF Len(rewritten) = 0 THEN EmptyObj ELSE FixEntries(obj, rewritten, 1, EmptyObj)

fixSwagger2References(obj) ==
  CASE ~Truthy(obj) -> obj
    [] IsArr(obj) -> Arr(FixItems(obj.a))
    [] IsObj(obj) -> FixObject(obj, Recursed(obj))
    [] OTHER -> obj

-----------------------------------------------------------------------------
(* Parameter normalizer (modern -> legacy) *)

schemaProps ==
  <<"type", "format", "enum", "minimum", "maximum", "exclusiveMinimum",
    "exclusiveMaximum", "multipleOf", "minLength", "maxLength", "pattern",
    "minItems", "maxItems", "uniqueItems", "default">>

\* the fields of schemaProps that the schema defines, in the order of the list
SchemaFields(schema) ==
  SelectSeq([i \in 1..Len(schemaProps) |-> <<schemaProps[i], Get(schema, schemaProps[i])>>],
            LAMBDA p : p[2] # Undef)

\* for (const prop of schemaProps) if (schema[prop] !== undefined) target[prop] = schema[prop]
CopySchemaProps(target, schema) == PutAll(target, Obj(SchemaFields(schema)), 1)

\* param.schema && param.schema.$ref && Object.keys(param.schema).length === 1
IsBareRefSchema(schema) ==
  Truthy(schema) /\ Truthy(Get(schema, "$ref")) /\ IsObj(schema) /\ Len(schema.kv) = 1

\* if (schema.type === 'array' && schema.items) target.items = schema.items
CopyItems(target, schema) ==
  PutIf(IsLit(Get(schema, "type"), "array") /\ Truthy(Get(schema, "items")),
        target, "items", Get(schema, "items"))

\* if (param.schema && !param.schema.$ref) the schema's fields move up
ExtractSchema(newParam, schema) ==
  IF Truthy(schema) /\ ~Truthy(Get(schema, "$ref"))
    THEN Del(CopyItems(CopySchemaProps(newParam, schema), schema), "schema")
    ELSE newParam

\* a normalizer without the default type
DefaultTypeOmitted(newParam) == newParam

\* if (!newParam.$ref && !newParam.type) newParam.type = 'string'
DefaultType(newParam) ==
  PutIf(~Truthy(Get(newParam, "$ref")) /\ ~Truthy(Get(newParam, "type")),
        newParam, "type", S1("string"))

\* if (newParam.type === 'array' && !newParam.items) newParam.items = { type: 'string' }
DefaultItems(newParam) ==
  PutIf(IsLit(Get(newParam, "type"), "array") /\ ~Truthy(Get(newParam, "items")),
        newParam, "items", Obj(<< <<"type", S1("string")>> >>))

\* the body of the map callback of ensureParameterTypes
EnsureOne(param) ==
  IF Truthy(Get(param, "in")) /\ ~IsLit(Get(param, "in"), "body")
    THEN IF IsBareRefSchema(Get(param, "schema"))
           THEN Del(Put(param, "$ref", RewriteRef(Get(Get(param, "schema"), "$ref"))), "schema")
           ELSE DefaultItems(DefaultType(ExtractSchema(param, Get(param, "schema"))))
    ELSE param

ensureParameterTypes(parameters) ==
  IF ~Truthy(parameters) THEN parameters
  ELSE Arr([i \in 1..Len(parameters.a) |-> EnsureOne(parameters.a[i])])

\* schema.anyOf && schema.anyOf.some(boolean) && schema.anyOf.some(null)
IsNullableBooleanUnion(schema) ==
  LET anyOf == Get(schema, "anyOf")
  IN /\ Truthy(anyOf)
     /\ IsArr(anyOf)
     /\ \E i \in 1..Len(anyOf.a) : IsLit(Get(anyOf.a[i], "type"), "boolean")
     /\ \E i \in 1..Len(anyOf.a) : IsLit(Get(anyOf.a[i], "type"), "null")

\* a converter that leaves cookie parameters where they are
CookieKept(param) == param

\* if (param.in === 'cookie') param = { ...param, in: 'header' }
CookieToHeader(param) ==
  PutIf(IsLit(Get(param, "in"), "cookie"), param, "in", S1("header"))

\* boolean schemas, also as anyOf [boolean, null], give type boolean
BooleanType(converted, schema) ==
  PutIf(IsLit(Get(schema, "type"), "boolean") \/ IsNullableBooleanUnion(schema),
        converted, "type", S1("boolean"))

\* if (schema.nullable === true || schema['x-nullable'] === true) delete converted['x-nullable']
DropNullable(converted, schema) ==
  IF Get(schema, "nullable") = Bool(TRUE) \/ Get(schema, "x-nullable") = Bool(TRUE)
    THEN Del(converted, "x-nullable")
    ELSE converted

\* the callback of convertParameters once a cookie parameter is relocated
ConvertLocated(param, schema) ==
  IF ~IsLit(Get(param, "in"), "body") /\ IsBareRefSchema(schema)
    THEN Put(Put(param, "$ref", RewriteRef(Get(schema, "$ref"))), "schema", Undef)
  ELSE IF ~IsLit(Get(param, "in"), "body") /\ Truthy(schema)
    THEN IF Truthy(Get(schema, "$ref"))
           THEN Del(Put(param, "$ref", RewriteRef(Get(schema, "$ref"))), "schema")
           ELSE Del(CopyItems(DropNullable(BooleanType(CopySchemaProps(param, schema),
                                                       schema), schema), schema), "schema")
  ELSE param

\* the body of the map callback of convertParameters
ConvertOne(param) == ConvertLocated(CookieToHeader(param), Get(param, "schema"))

convertParameters(parameters) ==
  IF ~Truthy(parameters) THEN Arr(<<>>)
  ELSE ensureParameterTypes(Arr([i \in 1..Len(parameters.a) |-> ConvertOne(parameters.a[i])]))

-----------------------------------------------------------------------------
(* Unsupported-feature detector (modern source) *)

RECURSIVE Flatten(_)
\* the concatenation of a sequence of sequences
Flatten(ss) == IF ss = <<>> THEN <<>> ELSE Head(ss) \o Flatten(Tail(ss))

\* method.toUpperCase(), for the path-item keys of the documents considered
toUpperCase(k) ==
  CASE k = "get" -> "GET"
    [] k = "put" -> "PUT"
    [] k = "post" -> "POST"
    [] k = "delete" -> "DELETE"
    [] k = "options" -> "OPTIONS"
    [] k = "head" -> "HEAD"
    [] k = "patch" -> "PATCH"
    [] k = "trace" -> "TRACE"
    [] k = "summary" -> "SUMMARY"
    [] k = "description" -> "DESCRIPTION"
    [] k = "servers" -> "SERVERS"
    [] k = "x-internal" -> "X-INTERNAL"
    [] OTHER -> k

WarnCallbacks == <<"Callbacks are not supported in Swagger 2.0 and will be removed.">>
WarnLinks == <<"Links are not supported in Swagger 2.0 and will be removed.">>
WarnUnion(key, schemaName) ==
  <<key, " in schema \"", schemaName,
    "\" will be simplified to a single schema with x-nullable if null is an option.">>
WarnNot(schemaName) ==
  <<"\"not\" keyword in schema \"", schemaName,
    "\" is not supported in Swagger 2.0 and will be simplified.">>
WarnEnum(schemaName) ==
  <<"Invalid enum values in schema \"", schemaName,
    "\" will be simplified for Swagger 2.0 compatibility.">>
WarnCookiePath(path) ==
  <<"Cookie parameter at path level for \"", path, "\" will be converted to a header parameter.">>
WarnRefPath(path) ==
  <<"Parameter with schema containing only $ref at path level for \"", path,
    "\" will have $ref moved to parameter level.">>
WarnCookieOp(method, path) ==
  <<"Cookie parameter in ", toUpperCase(method), " ", path,
    " will be converted to a header parameter.">>
WarnRefOp(method, path) ==
  <<"Parameter with schema containing only $ref in ", toUpperCase(method), " ", path,
    " will have $ref moved to parameter level.">>
WarnRequestTypes(method, path) ==
  <<"Multiple request content types in ", toUpperCase(method), " ", path,
    " will be consolidated to a single schema.">>
WarnResponseTypes(statusCode, method, path) ==
  <<"Multiple response content types for status ", statusCode, " in ", toUpperCase(method),
    " ", path, " will be consolidated.">>
WarnServers ==
  <<"Multiple servers defined. Only the first one will be used in the converted Swagger 2.0 specification.">>

\* the findings for one named schema
SchemaWarnings(schemaName, schema) ==
  (IF Truthy(Get(schema, "oneOf")) THEN <<WarnUnion("oneOf", schemaName)>> ELSE <<>>)
  \o (IF Truthy(Get(schema, "anyOf")) THEN <<WarnUnion("anyOf", schemaName)>> ELSE <<>>)
  \o (IF Truthy(Get(schema, "not")) THEN <<WarnNot(schemaName)>> ELSE <<>>)
  \o (IF hasInvalidEnumValues(schema) THEN <<WarnEnum(schemaName)>> ELSE <<>>)

\* param.in && param.in !== 'body' && param.schema && param.schema.$ref && one key
IsRefOnlyParam(param) ==
  Truthy(Get(param, "in")) /\ ~IsLit(Get(param, "in"), "body")
    /\ IsBareRefSchema(Get(param, "schema"))

\* the findings for one parameter, cookieW and refW being the two messages
ParamWarnings(param, cookieW, refW) ==
  (IF IsLit(Get(param, "in"), "cookie") THEN <<cookieW>> ELSE <<>>)
  \o (IF IsRefOnlyParam(param) THEN <<refW>> ELSE <<>>)

\* Object.keys(content).length > 1
ManyTypes(content) == Truthy(content) /\ IsObj(content) /\ Len(content.kv) > 1

\* the findings for one operation
OperationWarnings(method, path, op) ==
  LET params == Items(Get(op, "parameters"))
      responses == Entries(Get(op, "responses"))
  IN Flatten([i \in 1..Len(params) |->
                ParamWarnings(params[i], WarnCookieOp(method, path), WarnRefOp(method, path))])
     \o (IF Truthy(Get(op, "requestBody")) /\ ManyTypes(Get(Get(op, "requestBody"), "content"))
           THEN <<WarnRequestTypes(method, path)>>
           ELSE <<>>)
     \o Flatten([i \in 1..Len(responses) |->
                   IF ManyTypes(Get(responses[i][2], "content"))
                     THEN <<WarnResponseTypes(responses[i][1], method, path)>>
                     ELSE <<>>])

\* the findings for one path item
PathWarnings(path, pathItem) ==
  LET params == Items(Get(pathItem, "parameters"))
      ops == Entries(pathItem)
  IN Flatten([i \in 1..Len(params) |->
                ParamWarnings(params[i], WarnCookiePath(path), WarnRefPath(path))])
     \o Flatten([i \in 1..Len(ops) |->
                   IF ops[i][1] = "parameters" \/ ops[i][1] = "$ref" \/ ~Truthy(ops[i][2])
                     THEN <<>>
                     ELSE OperationWarnings(ops[i][1], path, ops[i][2])])

detectUnsupportedFeatures(openApiSpec) ==
  LET components == Get(openApiSpec, "components")
      schemas == Entries(Get(components, "schemas"))
      paths == Entries(Get(openApiSpec, "paths"))
      servers == Get(openApiSpec, "servers")
  IN (IF Truthy(Get(components, "callbacks")) THEN <<WarnCallbacks>> ELSE <<>>)
     \o (IF Truthy(Get(components, "links")) THEN <<WarnLinks>> ELSE <<>>)
     \o Flatten([i \in 1..Len(schemas) |-> SchemaWarnings(schemas[i][1], schemas[i][2])])
     \o Flatten([i \in 1..Len(paths) |-> PathWarnings(paths[i][1], paths[i][2])])
     \o (IF Truthy(servers) /\ IsArr(servers) /\ Len(servers.a) > 1
           THEN <<WarnServers>>
           ELSE <<>>)

-----------------------------------------------------------------------------
(* Security scheme mapper (modern -> legacy) *)

\* a mapper that knows the implicit flow only
OAuth2DefinitionImplicitOnly(result0, scheme) ==
  IF Truthy(Get(Get(scheme, "flows"), "implicit"))
    THEN Put(Put(Put(Put(result0, "type", S1("oauth2")), "flow", S1("implicit")),
                 "authorizationUrl", Get(Get(Get(scheme, "flows"), "implicit"), "authorizationUrl")),
             "scopes", OrEmptyObj(Get(Get(Get(scheme, "flows"), "implicit"), "scopes")))
    ELSE Put(result0, "type", S1("oauth2"))

\* the branch of the switch for type oauth2
OAuth2Definition(result0, scheme) ==
  LET flows == Get(scheme, "flows")
      result == Put(result0, "type", S1("oauth2"))
      implicit == Get(flows, "implicit")
      password == Get(flows, "password")
      clientCredentials == Get(flows, "clientCredentials")
      authorizationCode == Get(flows, "authorizationCode")
  IN IF Nullish(flows) THEN Thrown
     ELSE IF Truthy(implicit)
       THEN Put(Put(Put(result, "flow", S1("implicit")),
                    "authorizationUrl", Get(implicit, "authorizationUrl")),
                "scopes", OrEmptyObj(Get(implicit, "scopes")))
     ELSE IF Truthy(password)
       THEN Put(Put(Put(result, "flow", S1("password")),
                    "tokenUrl", Get(password, "tokenUrl")),
                "scopes", OrEmptyObj(Get(password, "scopes")))
     ELSE IF Truthy(clientCredentials)
       THEN Put(Put(Put(result, "flow", S1("application")),
                    "tokenUrl", Get(clientCredentials, "tokenUrl")),
                "scopes", OrEmptyObj(Get(clientCredentials, "scopes")))
     ELSE IF Truthy(authorizationCode)
       THEN Put(Put(Put(Put(result, "flow", S1("accessCode")),
                        "authorizationUrl", Get(authorizationCode, "authorizationUrl")),
                    "tokenUrl", Get(authorizationCode, "tokenUrl")),
                "scopes", OrEmptyObj(Get(authorizationCode, "scopes")))
     ELSE result

BearerDescription == S1("Bearer authentication. Example: \"Bearer {token}\"")
OidcDescription == S1("OpenID Connect (OIDC) authentication. See documentation for details.")

\* the switch over scheme.type
SwitchScheme(result, scheme) ==
  IF IsLit(Get(scheme, "type"), "http")
    THEN IF IsLit(Get(scheme, "scheme"), "basic") THEN Put(result, "type", S1("basic"))
         ELSE IF IsLit(Get(scheme, "scheme"), "bearer")
           THEN Put(Put(Put(Put(result, "type", S1("apiKey")),
                            "name", S1("Authorization")),
                        "in", S1("header")),
                    "description", BearerDescription)
         ELSE result
  ELSE IF IsLit(Get(scheme, "type"), "apiKey")
    THEN Put(Put(result, "name", Get(scheme, "name")), "in", Get(scheme, "in"))
  ELSE IF IsLit(Get(scheme, "type"), "oauth2") THEN OAuth2Definition(result, scheme)
  ELSE IF IsLit(Get(scheme, "type"), "openIdConnect")
    THEN Put(Put(Put(Put(result, "type", S1("oauth2")),
                     "flow", S1("implicit")),
                 "scopes", EmptyObj),
             "description", OidcDescription)
  ELSE result

\* if (scheme.description) result.description = scheme.description
WithDescription(result, scheme) ==
  IF result = Thrown THEN Thrown
  ELSE PutIf(Truthy(Get(scheme, "description")), result, "description",
             Get(scheme, "description"))

convertSecurityScheme(scheme) ==
  IF Nullish(scheme) THEN Thrown
  ELSE WithDescription(SwitchScheme(Obj(<< <<"type", Get(scheme, "type")>> >>), scheme), scheme)

-----------------------------------------------------------------------------
(* Operation converter (modern -> legacy) *)

JsonType == "application/json"

\* a choice that takes the first declared media type, whatever it is
PreferredTypeFirstDeclared(content) ==
  IF IsObj(content) /\ Len(content.kv) > 0 THEN S1(content.kv[1][1]) ELSE Undef

\* content['application/json'] ? 'application/json' : Object.keys(content)[0]
PreferredType(content) ==
  IF Truthy(Get(content, JsonType)) THEN S1(JsonType)
  ELSE IF IsObj(content) /\ Len(content.kv) > 0 THEN S1(content.kv[1][1])
  ELSE Undef

\* the synthetic body parameter of a requestBody
BodyParameter(requestBody) ==
  LET bodyParam == Obj(<< <<"name", S1("body")>>,
                          <<"in", S1("body")>>,
                          <<"required", Get(requestBody, "required")>>,
                          <<"description", Get(requestBody, "description")>> >>)
      content == Get(requestBody, "content")
      contentType == PreferredType(content)
  IN IF Truthy(content) /\ Truthy(contentType)
       THEN IF Nullish(Get(content, contentType.s[1])) THEN Thrown
            ELSE Put(bodyParam, "schema", Get(Get(content, contentType.s[1]), "schema"))
       ELSE bodyParam

\* the legacy response of one modern response
ConvertResponse(response) ==
  IF Nullish(response) THEN Thrown
  ELSE
    LET description == Get(response, "description")
        base == Obj(<< <<"description", IF Truthy(description) THEN description ELSE Str(<<>>)>> >>)
        content == Get(response, "content")
        contentType == PreferredType(content)
    IN IF Truthy(content) /\ Truthy(contentType)
         THEN IF Nullish(Get(content, contentType.s[1])) THEN Thrown
              ELSE IF Truthy(Get(Get(content, contentType.s[1]), "schema"))
                THEN Put(base, "schema", Get(Get(content, contentType.s[1]), "schema"))
              ELSE base
         ELSE base

\* the loop over Object.entries(operation.responses)
ConvertResponses(entries) ==
  Obj([i \in 1..Len(entries) |-> <<entries[i][1], ConvertResponse(entries[i][2])>>])

\* if (operation.parameters) result.parameters = convertParameters(operation.parameters)
WithParameters(result, operation) ==
  PutIf(Truthy(Get(operation, "parameters")), result, "parameters",
        convertParameters(Get(operation, "parameters")))

\* if (operation.requestBody) result.parameters.push(bodyParam)
WithBody(result, operation) ==
  PutIf(Truthy(Get(operation, "requestBody")), result, "parameters",
        Arr(Append(Items(Get(result, "parameters")),
                   BodyParameter(Get(operation, "requestBody")))))

\* if (operation.responses) each response is converted
WithResponses(result, operation) ==
  PutIf(Truthy(Get(operation, "responses")), result, "responses",
        ConvertResponses(Entries(Get(operation, "responses"))))

convertOperation(operation) ==
  IF Nullish(operation) THEN Thrown
  ELSE WithResponses(
         WithBody(
           WithParameters(
             PutIf(Truthy(Get(operation, "security")),
                   Obj(<< <<"summary", Get(operation, "summary")>>,
                          <<"description", Get(operation, "description")>>,
                          <<"operationId", Get(operation, "operationId")>>,
                          <<"tags", Get(operation, "tags")>>,
                          <<"responses", EmptyObj>> >>),
                   "security", Get(operation, "security")),
             operation),
           operation),
         operation)

-----------------------------------------------------------------------------
(* Conversion orchestrator (modern -> legacy) *)

A2B == "openapi-to-swagger"
B2A == "swagger-to-openapi"

NoError == [kind |-> "none", message |-> <<>>]
NoOutcome ==
  [status |-> "none", output |-> Undef, warnings |-> <<>>, error |-> NoError, stage |-> "none"]
Returned(output, warnings) ==
  [status |-> "ok", output |-> output, warnings |-> warnings, error |-> NoError,
   stage |-> "done"]
Threw(kind, message, stage) ==
  [status |-> "thrown", output |-> Undef, warnings |-> <<>>,
   error |-> [kind |-> kind, message |-> message], stage |-> stage]

\* yaml.load of a text: the text is held as what it parses to, or as unparseable
Unparseable == [parses |-> FALSE, value |-> Undef]
TextOf(value) == [parses |-> TRUE, value |-> value]

RECURSIVE yamlDump(_)
\* yaml.dump writes no key whose value is undefined, and null for an undefined
\* array member; the output text is held as the tree it denotes
yamlDump(v) ==
  CASE v.t = "arr" -> Arr([i \in 1..Len(v.a) |->
                            IF v.a[i] = Undef THEN Null ELSE yamlDump(v.a[i])])
    [] v.t = "obj" ->
         LET kept == SelectSeq(v.kv, LAMBDA p : p[2] # Undef)
         IN Obj([i \in 1..Len(kept) |-> <<kept[i][1], yamlDump(kept[i][2])>>])
    [] OTHER -> v

\* new URL(url): a URL is <<scheme, "://", host, path...>>; anything else is
\* relative and, without a base, raises TypeError
UrlParses(url) == IsStr(url) /\ Len(url.s) >= 3 /\ url.s[2] = "://"
UrlProtocol(url) == <<url.s[1], ":">>
UrlHost(url) == <<url.s[3]>>
UrlPathname(url) == IF Len(url.s) >= 4 THEN SubSeq(url.s, 4, Len(url.s)) ELSE <<"/">>

\* s.replace(':', '')
RemoveFirst(s, tok) ==
  IF \E i \in 1..Len(s) : s[i] = tok
    THEN LET i == CHOOSE j \in 1..Len(s) : s[j] = tok /\ \A h \in 1..(j - 1) : s[h] # tok
         IN SubSeq(s, 1, i - 1) \o SubSeq(s, i + 1, Len(s))
    ELSE s

\* host, basePath and schemes from new URL(url)
FromUrl(swaggerSpec, url) ==
  IF ~UrlParses(url) THEN Raise(swaggerSpec)
  ELSE Put(Put(Put(swaggerSpec, "host", Str(UrlHost(url))),
               "basePath", Str(UrlPathname(url))),
           "schemes", Arr(<<Str(RemoveFirst(UrlProtocol(url), ":"))>>))

\* if (openApiSpec.servers && openApiSpec.servers.length > 0) servers[0] is used
WithServer(swaggerSpec, servers) ==
  IF Truthy(servers) /\ IsArr(servers) /\ Len(servers.a) > 0
    THEN IF Nullish(servers.a[1]) THEN Raise(swaggerSpec)
         ELSE FromUrl(swaggerSpec, Get(servers.a[1], "url"))
    ELSE swaggerSpec

\* components.schemas -> definitions
ConvertSchemas(entries) ==
  Obj([i \in 1..Len(entries) |->
         <<entries[i][1],
           IF hasInvalidEnumValues(entries[i][2])
             THEN simplifyInvalidEnumSchema(entries[i][2])
             ELSE entries[i][2]>>])

\* components.securitySchemes -> securityDefinitions
ConvertSchemes(entries) ==
  Obj([i \in 1..Len(entries) |-> <<entries[i][1], convertSecurityScheme(entries[i][2])>>])

\* if (operation.security) swaggerPath[method].security = operation.security
Secured(converted, operation) ==
  PutIf(converted # Thrown /\ Truthy(Get(operation, "security")), converted, "security",
        Get(operation, "security"))

\* method === 'parameters' || method === '$ref'
IsOperationEntry(entry) == entry[1] # "parameters" /\ entry[1] # "$ref"

\* the loop over the entries of one modern path item: swaggerPath[method] = ...
ConvertMethods(entries) ==
  [i \in 1..Len(entries) |->
     <<entries[i][1], Secured(convertOperation(entries[i][2]), entries[i][2])>>]

\* one modern path item -> one legacy path item
ConvertPathItem(pathItem) ==
  IF Nullish(pathItem) THEN Thrown
  ELSE Obj((IF Truthy(Get(pathItem, "parameters"))
              THEN << <<"parameters", convertParameters(Get(pathItem, "parameters"))>> >>
              ELSE <<>>)
           \o ConvertMethods(SelectSeq(Entries(pathItem), IsOperationEntry)))

\* the loop over Object.entries(openApiSpec.paths)
ConvertPaths(entries) ==
  Obj([i \in 1..Len(entries) |-> <<entries[i][1], ConvertPathItem(entries[i][2])>>])

\* the base structure of the legacy document
Skeleton(openApiSpec) ==
  Obj(<< <<"swagger", S1("2.0")>>,
         <<"info", Get(openApiSpec, "info")>>,
         <<"host", Str(<<>>)>>,
         <<"basePath", S1("/")>>,
         <<"schemes", Arr(<<S1("https")>>)>>,
         <<"consumes", Arr(<<S1(JsonType)>>)>>,
         <<"produces", Arr(<<S1(JsonType)>>)>>,
         <<"paths", EmptyObj>>,
         <<"definitions", EmptyObj>>,
         <<"securityDefinitions", EmptyObj>> >>)

\* components.schemas -> definitions
WithDefinitions(swaggerSpec, components) ==
  PutIf(Truthy(components) /\ Truthy(Get(components, "schemas")), swaggerSpec, "definitions",
        ConvertSchemas(Entries(Get(components, "schemas"))))

\* components.securitySchemes -> securityDefinitions
WithSecurityDefinitions(swaggerSpec, components) ==
  PutIf(Truthy(components) /\ Truthy(Get(components, "securitySchemes")), swaggerSpec,
        "securityDefinitions",
        ConvertSchemes(Entries(Get(components, "securitySchemes"))))

\* paths
WithPaths(swaggerSpec, paths) ==
  PutIf(Truthy(paths), swaggerSpec, "paths", ConvertPaths(Entries(paths)))

\* the legacy document before the rewriter runs; a raised exception ends the
\* construction where it happens
BuildSwagger(openApiSpec) ==
  WithPaths(
    WithSecurityDefinitions(
      WithDefinitions(
        WithServer(
          PutIf(Truthy(Get(openApiSpec, "security")), Skeleton(openApiSpec), "security",
                Get(openApiSpec, "security")),
          Get(openApiSpec, "servers")),
        Get(openApiSpec, "components")),
      Get(openApiSpec, "components")),
    Get(openApiSpec, "paths"))

\* the final pass over one entry of a legacy path item
EnsureMethod(method, operation) ==
  IF method = "parameters" \/ method = "$ref" \/ ~Truthy(operation)
       \/ ~Truthy(Get(operation, "parameters"))
    THEN <<method, operation>>
    ELSE <<method, Put(operation, "parameters",
                       ensureParameterTypes(Get(operation, "parameters")))>>

\* the final pass over the operations of one legacy path item
EnsureMethods(pathItem) ==
  Obj([i \in 1..Len(pathItem.kv) |-> EnsureMethod(pathItem.kv[i][1], pathItem.kv[i][2])])

\* the final pass over one legacy path item
EnsurePathItem(pathItem) ==
  IF ~IsObj(pathItem) THEN pathItem
  ELSE EnsureMethods(PutIf(Truthy(Get(pathItem, "parameters")), pathItem, "parameters",
                           ensureParameterTypes(Get(pathItem, "parameters"))))

\* the final pass: every parameter list goes through ensureParameterTypes again
EnsureAll(fixedSwaggerSpec) ==
  LET paths == Get(fixedSwaggerSpec, "paths")
  IN IF Truthy(paths) /\ IsObj(paths)
       THEN Put(fixedSwaggerSpec, "paths",
                Obj([i \in 1..Len(paths.kv) |->
                       <<paths.kv[i][1], EnsurePathItem(paths.kv[i][2])>>]))
       ELSE fixedSwaggerSpec

MismatchModern == <<"The provided file is not a valid ", "OpenAPI 3.x", " specification">>
MismatchLegacy == <<"The provided file is not a valid ", "Swagger 2.0", " specification">>

\* the final pass and yaml.dump, unless the rewriter raised
Finish(fixedSwaggerSpec, warnings) ==
  IF ContainsThrown(fixedSwaggerSpec)
    THEN Threw("TypeError", <<"raised while the target tree is rewritten">>, "rewrite")
    ELSE Returned(yamlDump(EnsureAll(fixedSwaggerSpec)), warnings)

\* the rewriter runs over the built document, unless its construction raised
Rewrite(swaggerSpec, warnings) ==
  IF ContainsThrown(swaggerSpec)
    THEN Threw("TypeError", <<"raised while the target tree is built">>, "build")
    ELSE Finish(fixSwagger2References(swaggerSpec), warnings)

\* if (!openApiSpec.openapi || !openApiSpec.openapi.startsWith('3.')) throw
ValidateModern(openApiSpec, openapi) ==
  IF Nullish(openApiSpec)
    THEN Threw("TypeError", <<"Cannot read properties of ", "openapi">>, "validate")
  ELSE IF ~Truthy(openapi) THEN Threw("Error", MismatchModern, "validate")
  ELSE IF ~IsStr(openapi)
    THEN Threw("TypeError", <<"openApiSpec.openapi.startsWith is not a function">>, "validate")
  ELSE IF ~StartsWith(openapi.s, "3.") THEN Threw("Error", MismatchModern, "validate")
  ELSE Rewrite(BuildSwagger(openApiSpec), detectUnsupportedFeatures(openApiSpec))

convertOpenApiToSwagger(text) ==
  IF ~text.parses THEN Threw("YAMLException", <<"bad YAML">>, "parse")
  ELSE ValidateModern(text.value, Get(text.value, "openapi"))

-----------------------------------------------------------------------------
(* Legacy -> modern *)

WarnProduces ==
  <<"Multiple global \"produces\" values will be converted to individual response content types in OpenAPI 3.x.">>
WarnConsumes ==
  <<"Multiple global \"consumes\" values will be converted to individual request content types in OpenAPI 3.x.">>
WarnFormData(method, path) ==
  <<"formData parameters in ", toUpperCase(method), " ", path,
    " will be converted to requestBody with content type application/x-www-form-urlencoded or multipart/form-data.">>
WarnBodyTypes(method, path) ==
  <<"Body parameters in ", toUpperCase(method), " ", path,
    " with non-JSON content types will be converted to appropriate request body media types.">>

\* list.includes('application/json')
IncludesJson(list) == IsArr(list) /\ \E i \in 1..Len(list.a) : IsLit(list.a[i], JsonType)

\* the findings for one legacy operation
SwaggerOperationWarnings(swaggerSpec, method, path, op) ==
  LET params == Items(Get(op, "parameters"))
      hasFormData == \E i \in 1..Len(params) : IsLit(Get(params[i], "in"), "formData")
      hasBody == \E i \in 1..Len(params) : IsLit(Get(params[i], "in"), "body")
      consumes == Get(swaggerSpec, "consumes")
  IN (IF hasFormData THEN <<WarnFormData(method, path)>> ELSE <<>>)
     \o (IF hasBody /\ (~Truthy(consumes) \/ ~IncludesJson(consumes))
           THEN <<WarnBodyTypes(method, path)>>
           ELSE <<>>)

\* the findings for one legacy path item
SwaggerPathWarnings(swaggerSpec, path, pathItem) ==
  LET ops == Entries(pathItem)
  IN Flatten([i \in 1..Len(ops) |->
                IF ops[i][1] = "parameters" \/ ops[i][1] = "$ref" \/ ~Truthy(ops[i][2])
                  THEN <<>>
                  ELSE SwaggerOperationWarnings(swaggerSpec, ops[i][1], path, ops[i][2])])

detectSwaggerUnsupportedFeatures(swaggerSpec) ==
  LET produces == Get(swaggerSpec, "produces")
      consumes == Get(swaggerSpec, "consumes")
      paths == Entries(Get(swaggerSpec, "paths"))
  IN (IF Truthy(produces) /\ IsArr(produces) /\ Len(produces.a) > 1
        THEN <<WarnProduces>> ELSE <<>>)
     \o (IF Truthy(consumes) /\ IsArr(consumes) /\ Len(consumes.a) > 1
           THEN <<WarnConsumes>> ELSE <<>>)
     \o Flatten([i \in 1..Len(paths) |->
                   SwaggerPathWarnings(swaggerSpec, paths[i][1], paths[i][2])])

RECURSIVE fixOpenApiReferencesObjectsOnly(_)
\* a rewriter that does not go into arrays
fixOpenApiReferencesObjectsOnly(obj) ==
  IF IsObj(obj)
    THEN Obj([i \in 1..Len(obj.kv) |->
                IF obj.kv[i][1] = "$ref" /\ IsStr(obj.kv[i][2])
                  THEN <<"$ref", Str(Replace(obj.kv[i][2].s, LegacyPrefix, ModernPrefix))>>
                  ELSE <<obj.kv[i][1], fixOpenApiReferencesObjectsOnly(obj.kv[i][2])>>])
  ELSE obj

RECURSIVE fixOpenApiReferences(_)
\* the tree as fixOpenApiReferences leaves it (the code rewrites it in place)
fixOpenApiReferences(obj) ==
  IF IsArr(obj) THEN Arr([i \in 1..Len(obj.a) |-> fixOpenApiReferences(obj.a[i])])
  ELSE IF IsObj(obj)
    THEN Obj([i \in 1..Len(obj.kv) |->
                LET key == obj.kv[i][1]
                    value == obj.kv[i][2]
                IN IF key = "$ref" /\ IsStr(value)
                     THEN <<key, Str(Replace(value.s, LegacyPrefix, ModernPrefix))>>
                   ELSE IF IsArr(value) \/ IsObj(value)
                     THEN <<key, fixOpenApiReferences(value)>>
                   ELSE <<key, value>>])
  ELSE obj

\* Object.fromEntries(Object.entries(schema).filter(([_, v]) => v !== undefined && v !== null))
CleanSchema(schema) == Obj(SelectSeq(schema.kv, LAMBDA p : ~Nullish(p[2])))

\* a schema that is nullable only when the parameter says x-nullable
SchemaOfParameterAsDeclared(param) ==
  CleanSchema(
    PutIf(IsLit(Get(param, "type"), "array") /\ Truthy(Get(param, "items")),
          PutIf(Get(param, "x-nullable") = Bool(TRUE),
                Obj(<< <<"type", Get(param, "type")>>,
                       <<"format", Get(param, "format")>>,
                       <<"enum", Get(param, "enum")>> >>),
                "nullable", Bool(TRUE)),
          "items", Get(param, "items")))

\* newParam.schema, from the type fields of a legacy parameter
SchemaOfParameter(param) ==
  CleanSchema(
    PutIf(IsLit(Get(param, "type"), "array") /\ Truthy(Get(param, "items")),
          PutIf(Get(param, "required") = Bool(FALSE),
                PutIf(Get(param, "x-nullable") = Bool(TRUE),
                      Obj(<< <<"type", Get(param, "type")>>,
                             <<"format", Get(param, "format")>>,
                             <<"enum", Get(param, "enum")>> >>),
                      "nullable", Bool(TRUE)),
                "nullable", Bool(TRUE)),
          "items", Get(param, "items")))

\* if (param['x-nullable'] === true) delete newParam['x-nullable']
DropExtension(newParam, param) ==
  IF Get(param, "x-nullable") = Bool(TRUE) THEN Del(newParam, "x-nullable") ELSE newParam

\* the body of the map callback of convertSwaggerParametersToOpenApi
ToOpenApiParameter(param) ==
  IF ~IsLit(Get(param, "in"), "body") /\ ~IsLit(Get(param, "in"), "formData")
    THEN IF Truthy(Get(param, "$ref")) THEN param
         ELSE IF Truthy(Get(param, "type")) \/ Truthy(Get(param, "format"))
                   \/ Truthy(Get(param, "items")) \/ Truthy(Get(param, "enum"))
           THEN Del(Del(Del(Del(DropExtension(Put(param, "schema", SchemaOfParameter(param)),
                                              param),
                                "type"), "format"), "items"), "enum")
         ELSE param
    ELSE param

convertSwaggerParametersToOpenApi(parameters) ==
  IF ~Truthy(parameters) THEN Arr(<<>>)
  ELSE Arr([i \in 1..Len(parameters.a) |-> ToOpenApiParameter(parameters.a[i])])

\* `${scheme}://${host}${basePath}`
buildServerUrl(swaggerSpec) ==
  LET schemes == Get(swaggerSpec, "schemes")
      scheme == IF Truthy(schemes) /\ IsArr(schemes) /\ Len(schemes.a) > 0
                  THEN OrEmpty(schemes.a[1])
                  ELSE <<"https">>
      host == IF Truthy(Get(swaggerSpec, "host"))
                THEN OrEmpty(Get(swaggerSpec, "host"))
                ELSE <<"example.com">>
      basePath == IF Truthy(Get(swaggerSpec, "basePath"))
                    THEN OrEmpty(Get(swaggerSpec, "basePath"))
                    ELSE <<"/">>
  IN Str(scheme \o <<"://">> \o host \o basePath)

\* a string value used as a property key
PropKey(v) == IF IsStr(v) /\ Len(v.s) > 0 THEN v.s[1] ELSE "undefined"

\* a content map keyed by the first media type only
ContentForFirstType(contentTypes, i, schema, acc) ==
  IF contentTypes = <<>> THEN acc
  ELSE Put(acc, PropKey(contentTypes[1]), Obj(<< <<"schema", schema>> >>))

RECURSIVE ContentFor(_, _, _, _)
\* contentTypes.forEach(contentType => content[contentType] = { schema })
ContentFor(contentTypes, i, schema, acc) ==
  IF i > Len(contentTypes) THEN acc
  ELSE ContentFor(contentTypes, i + 1, schema,
         Put(acc, PropKey(contentTypes[i]), Obj(<< <<"schema", schema>> >>)))

\* the requestBody of a body parameter
BodyRequest(bodyParam, contentTypes) ==
  Obj(<< <<"description", Get(bodyParam, "description")>>,
         <<"required", Bool(Truthy(Get(bodyParam, "required")))>>,
         <<"content", ContentFor(Items(contentTypes), 1, Get(bodyParam, "schema"), EmptyObj)>> >>)

\* the schema property of one formData parameter
FormProperty(param) ==
  PutIf(Truthy(Get(param, "enum")),
        PutIf(IsLit(Get(param, "type"), "array") /\ Truthy(Get(param, "items")),
              Obj(<< <<"type", Get(param, "type")>>,
                     <<"description", Get(param, "description")>> >>),
              "items", Get(param, "items")),
        "enum", Get(param, "enum"))

RECURSIVE FormProperties(_, _, _)
FormProperties(params, i, acc) ==
  IF i > Len(params) THEN acc
  ELSE FormProperties(params, i + 1,
         Put(acc, PropKey(Get(params[i], "name")), FormProperty(params[i])))

\* a form that is always URL-encoded and requires nothing
FormRequestUrlEncoded(formDataParams) ==
  Obj(<< <<"required", Bool(FALSE)>>,
         <<"content",
           Obj(<< <<"application/x-www-form-urlencoded",
                    Obj(<< <<"schema",
                             Obj(<< <<"type", S1("object")>>,
                                    <<"properties",
                                      FormProperties(formDataParams, 1, EmptyObj)>> >>)>> >>)>> >>)>> >>)

\* the requestBody of the formData parameters
FormRequest(formDataParams) ==
  LET contentType == IF \E i \in 1..Len(formDataParams) :
                          IsLit(Get(formDataParams[i], "type"), "file")
                       THEN "multipart/form-data"
                       ELSE "application/x-www-form-urlencoded"
      requiredParams == SelectSeq(formDataParams, LAMBDA p : Truthy(Get(p, "required")))
      required == [i \in 1..Len(requiredParams) |-> Get(requiredParams[i], "name")]
  IN Obj(<< <<"required", Bool(Len(required) > 0)>>,
            <<"content",
              Obj(<< <<contentType,
                       Obj(<< <<"schema",
                                Obj(<< <<"type", S1("object")>>,
                                       <<"properties",
                                         FormProperties(formDataParams, 1, EmptyObj)>>,
                                       <<"required",
                                         IF Len(required) > 0 THEN Arr(required) ELSE Undef>>
                                    >>)>> >>)>> >>)>> >>)

\* the modern response of one legacy response
ToOpenApiResponse(response, contentTypes) ==
  IF Nullish(response) THEN Thrown
  ELSE PutIf(Truthy(Get(response, "schema")),
             Obj(<< <<"description", IF Truthy(Get(response, "description"))
                                       THEN Get(response, "description")
                                       ELSE Str(<<>>)>> >>),
             "content", ContentFor(Items(contentTypes), 1, Get(response, "schema"), EmptyObj))

\* the loop over Object.entries(operation.responses)
ToOpenApiResponses(entries, contentTypes) ==
  Obj([i \in 1..Len(entries) |->
         <<entries[i][1], ToOpenApiResponse(entries[i][2], contentTypes)>>])

\* p.in === 'body'
BodyParams(parameters) == SelectSeq(parameters, LAMBDA q : IsLit(Get(q, "in"), "body"))

\* p.in === 'formData'
FormDataParams(parameters) == SelectSeq(parameters, LAMBDA q : IsLit(Get(q, "in"), "formData"))

\* p.in !== 'body' && p.in !== 'formData'
OtherParams(parameters) ==
  SelectSeq(parameters, LAMBDA q : ~IsLit(Get(q, "in"), "body") /\ ~IsLit(Get(q, "in"), "formData"))

\* a || b
Either(a, b) == IF Truthy(a) THEN a ELSE b

\* the parameters of a legacy operation: the others, then the body, then the form
WithRequest(openApiOperation, parameters, consumes) ==
  PutIf(Len(FormDataParams(parameters)) > 0,
        PutIf(Len(BodyParams(parameters)) > 0,
              PutIf(Len(OtherParams(parameters)) > 0, openApiOperation, "parameters",
                    convertSwaggerParametersToOpenApi(Arr(OtherParams(parameters)))),
              "requestBody",
              IF Len(BodyParams(parameters)) > 0
                THEN BodyRequest(BodyParams(parameters)[1], consumes)
                ELSE Undef),
        "requestBody", FormRequest(FormDataParams(parameters)))

\* the responses of a legacy operation
WithContent(openApiOperation, responses, produces) ==
  PutIf(Truthy(responses), openApiOperation, "responses",
        ToOpenApiResponses(Entries(responses), produces))

convertSwaggerOperationToOpenApi(operation, globalConsumes, globalProduces) ==
  WithContent(
    WithRequest(
      PutIf(Truthy(Get(operation, "security")),
            Obj(<< <<"summary", Get(operation, "summary")>>,
                   <<"description", Get(operation, "description")>>,
                   <<"operationId", Get(operation, "operationId")>>,
                   <<"tags", Get(operation, "tags")>>,
                   <<"responses", EmptyObj>> >>),
            "security", Get(operation, "security")),
      Items(Get(operation, "parameters")),
      Either(Get(operation, "consumes"), globalConsumes)),
    Get(operation, "responses"),
    Either(Get(operation, "produces"), globalProduces))

\* the flows entry of a legacy oauth2 definition
FlowsOf(definition) ==
  LET flow == Get(definition, "flow")
      scopes == OrEmptyObj(Get(definition, "scopes"))
      authorizationUrl == <<"authorizationUrl", Get(definition, "authorizationUrl")>>
      tokenUrl == <<"tokenUrl", Get(definition, "tokenUrl")>>
  IN IF IsLit(flow, "implicit")
       THEN Obj(<< <<"implicit", Obj(<<authorizationUrl, <<"scopes", scopes>> >>)>> >>)
     ELSE IF IsLit(flow, "password")
       THEN Obj(<< <<"password", Obj(<<tokenUrl, <<"scopes", scopes>> >>)>> >>)
     ELSE IF IsLit(flow, "application")
       THEN Obj(<< <<"clientCredentials", Obj(<<tokenUrl, <<"scopes", scopes>> >>)>> >>)
     ELSE IF IsLit(flow, "accessCode")
       THEN Obj(<< <<"authorizationCode",
                     Obj(<<authorizationUrl, tokenUrl, <<"scopes", scopes>> >>)>> >>)
     ELSE EmptyObj

convertSecurityDefinitionToScheme(definition) ==
  IF Nullish(definition) THEN Thrown
  ELSE
    LET ty == Get(definition, "type")
        result == Obj(<< <<"type", ty>>, <<"description", Get(definition, "description")>> >>)
    IN IF IsLit(ty, "basic")
         THEN Put(Put(result, "type", S1("http")), "scheme", S1("basic"))
       ELSE IF IsLit(ty, "apiKey")
         THEN Put(Put(result, "in", Get(definition, "in")), "name", Get(definition, "name"))
       ELSE IF IsLit(ty, "oauth2")
         THEN Put(Put(result, "type", S1("oauth2")), "flows", FlowsOf(definition))
       ELSE result

\* securityDefinitions -> components.securitySchemes
ToOpenApiSchemes(entries) ==
  Obj([i \in 1..Len(entries) |->
         <<entries[i][1], convertSecurityDefinitionToScheme(entries[i][2])>>])

\* method === 'parameters' || method === '$ref' || !operation
IsLegacyOperationEntry(entry) ==
  entry[1] # "parameters" /\ entry[1] # "$ref" /\ Truthy(entry[2])

\* the loop over the entries of one legacy path item: openApiPath[method] = ...
ToOpenApiMethods(swaggerSpec, entries) ==
  [i \in 1..Len(entries) |->
     <<entries[i][1],
       Secured(convertSwaggerOperationToOpenApi(
                 entries[i][2],
                 Either(Get(swaggerSpec, "consumes"), Arr(<<S1(JsonType)>>)),
                 Either(Get(swaggerSpec, "produces"), Arr(<<S1(JsonType)>>))),
               entries[i][2])>>]

\* one legacy path item -> one modern path item
ToOpenApiPathItem(swaggerSpec, pathItem) ==
  IF Nullish(pathItem) THEN Thrown
  ELSE Obj((IF Truthy(Get(pathItem, "parameters"))
              THEN << <<"parameters",
                        convertSwaggerParametersToOpenApi(Get(pathItem, "parameters"))>> >>
              ELSE <<>>)
           \o ToOpenApiMethods(swaggerSpec, SelectSeq(Entries(pathItem), IsLegacyOperationEntry)))

\* the loop over Object.entries(swaggerSpec.paths)
ToOpenApiPaths(swaggerSpec, entries) ==
  Obj([i \in 1..Len(entries) |->
         <<entries[i][1], ToOpenApiPathItem(swaggerSpec, entries[i][2])>>])

\* the base structure of the modern document, with its servers entry
OpenApiSkeleton(swaggerSpec) ==
  Put(PutIf(Truthy(Get(swaggerSpec, "security")),
            Obj(<< <<"openapi", Str(<<"3.", "0.0">>)>>,
                   <<"info", Get(swaggerSpec, "info")>>,
                   <<"paths", EmptyObj>>,
                   <<"components", EmptyObj>> >>),
            "security", Get(swaggerSpec, "security")),
      "servers", Arr(<<Obj(<< <<"url", buildServerUrl(swaggerSpec)>> >>)>>))

\* components: definitions -> schemas, securityDefinitions -> securitySchemes
OpenApiComponents(swaggerSpec) ==
  Obj(<< <<"schemas", Either(Get(swaggerSpec, "definitions"), EmptyObj)>>,
         <<"securitySchemes",
           IF Truthy(Get(swaggerSpec, "securityDefinitions"))
             THEN ToOpenApiSchemes(Entries(Get(swaggerSpec, "securityDefinitions")))
             ELSE EmptyObj>> >>)

\* the modern document before fixOpenApiReferences runs
BuildOpenApi(swaggerSpec) ==
  PutIf(Truthy(Get(swaggerSpec, "paths")),
        Put(OpenApiSkeleton(swaggerSpec), "components", OpenApiComponents(swaggerSpec)),
        "paths",
        ToOpenApiPaths(swaggerSpec, Entries(Get(swaggerSpec, "paths"))))

\* fixOpenApiReferences and yaml.dump, unless the construction raised
FinishOpenApi(openApiSpec, warnings) ==
  IF ContainsThrown(openApiSpec)
    THEN Threw("TypeError", <<"raised while the target tree is built">>, "build")
    ELSE Returned(yamlDump(fixOpenApiReferences(openApiSpec)), warnings)

\* if (!swaggerSpec.swagger || swaggerSpec.swagger !== '2.0') throw
ValidateLegacy(swaggerSpec, swagger) ==
  IF Nullish(swaggerSpec)
    THEN Threw("TypeError", <<"Cannot read properties of ", "swagger">>, "validate")
  ELSE IF ~Truthy(swagger) \/ ~IsLit(swagger, "2.0")
    THEN Threw("Error", MismatchLegacy, "validate")
  ELSE FinishOpenApi(BuildOpenApi(swaggerSpec), detectSwaggerUnsupportedFeatures(swaggerSpec))

convertSwaggerToOpenApi(text) ==
  IF ~text.parses THEN Threw("YAMLException", <<"bad YAML">>, "parse")
  ELSE ValidateLegacy(text.value, Get(text.value, "swagger"))

convertSpecification(text, dir) ==
  IF dir = A2B THEN convertOpenApiToSwagger(text) ELSE convertSwaggerToOpenApi(text)

-----------------------------------------------------------------------------
(* Dialect classifier *)

isOpenApi3(obj) ==
  Truthy(obj) /\ Truthy(Get(obj, "openapi")) /\ IsStr(Get(obj, "openapi"))
    /\ StartsWith(Get(obj, "openapi").s, "3.")

isSwagger2(obj) ==
  Truthy(obj) /\ Truthy(Get(obj, "swagger")) /\ IsLit(Get(obj, "swagger"), "2.0")

\* a classifier that looks at the legacy marker first
detectSpecTypeLegacyFirst(text) ==
  IF ~text.parses THEN "unknown"
  ELSE IF isSwagger2(text.value) THEN "swagger2"
  ELSE IF isOpenApi3(text.value) THEN "openapi3"
  ELSE "unknown"

detectSpecType(text) ==
  IF ~text.parses THEN "unknown"
  ELSE IF isOpenApi3(text.value) THEN "openapi3"
  ELSE IF isSwagger2(text.value) THEN "swagger2"
  ELSE "unknown"

-----------------------------------------------------------------------------
(* Input texts *)

Info == Obj(<< <<"title", S1("Pets")>>, <<"version", S1("1.0.0")>> >>)

\* an object literal: the pairs whose value is not undefined
Lit(kv) == Obj(SelectSeq(kv, LAMBDA p : p[2] # Undef))

\* values of the top-level field openapi
OpenapiMarkers ==
  {Undef, Null, Str(<<>>), Str(<<"3.", "0.0">>), Str(<<"3.", "1.0">>), Str(<<"3.">>),
   S1("2.0"), S1("30"), S1("v3.0"), Num(3), Num(0), Bool(TRUE)}

\* values of the top-level field swagger
SwaggerMarkers == {Undef, Null, Str(<<>>), S1("2.0"), S1("2.00"), S1("1.2"), Num(2)}

\* texts that parse to a mapping, with every combination of the two markers
MarkerTexts ==
  {TextOf(Lit(<< <<"openapi", o>>, <<"swagger", w>>, <<"info", i>>, <<"paths", EmptyObj>> >>)) :
     o \in OpenapiMarkers, w \in SwaggerMarkers, i \in {Undef, Info}}

\* texts that do not parse, or parse to something that is no mapping
OddTexts ==
  {Unparseable, TextOf(Undef), TextOf(Null), TextOf(S1("hello")), TextOf(Str(<<"3.", "0.0">>)),
   TextOf(Num(42)), TextOf(Bool(FALSE)), TextOf(Arr(<<>>)),
   TextOf(Arr(<<Obj(<< <<"openapi", Str(<<"3.", "0.0">>)>> >>)>>))}

ClassifyTexts == MarkerTexts \cup OddTexts

-----------------------------------------------------------------------------
(* Well-formed documents of the two dialects *)

Pointer(prefix, name) == Str(<<prefix, name>>)
ModernRef(name) == Obj(<< <<"$ref", Pointer(ModernPrefix, name)>> >>)
LegacyRef(name) == Obj(<< <<"$ref", Pointer(LegacyPrefix, name)>> >>)

Typed(ty) == Obj(<< <<"type", S1(ty)>> >>)
NullSchema == Typed("null")

PetSchema ==
  Obj(<< <<"type", S1("object")>>,
         <<"properties", Obj(<< <<"name", Typed("string")>> >>)>> >>)

OkResponse == Obj(<< <<"description", S1("ok")>> >>)

Operation(parameters, requestBody, responses) ==
  Lit(<< <<"operationId", S1("listPets")>>,
         <<"parameters", parameters>>,
         <<"requestBody", requestBody>>,
         <<"responses", responses>> >>)

PathItem(parameters, method, operation) ==
  Lit(<< <<"parameters", parameters>>, <<method, operation>> >>)

Paths(pathItem) == Obj(<< <<"/pets", pathItem>> >>)

ModernDoc(servers, components, paths) ==
  TextOf(Lit(<< <<"openapi", Str(<<"3.", "0.3">>)>>,
                <<"info", Info>>,
                <<"servers", servers>>,
                <<"paths", paths>>,
                <<"components", components>> >>))

LegacyDoc(fields, paths, definitions) ==
  TextOf(Lit(<< <<"swagger", S1("2.0")>>, <<"info", Info>> >>
             \o fields
             \o << <<"paths", paths>>, <<"definitions", definitions>> >>))

\* server URLs: absolute with a path, absolute without one, and relative to
\* the place the document is served from
AbsoluteUrl == Str(<<"https", "://", "api.example.com", "/v1">>)
BareUrl == Str(<<"http", "://", "localhost:8080">>)
RelativeUrl == Str(<<"/v1">>)
Server(url) == Obj(<< <<"url", url>> >>)

ServerLists ==
  {Undef, Arr(<<>>), Arr(<<Server(AbsoluteUrl)>>), Arr(<<Server(BareUrl)>>),
   Arr(<<Server(RelativeUrl)>>), Arr(<<Server(AbsoluteUrl), Server(BareUrl)>>)}

Scopes == Obj(<< <<"read", S1("read access")>> >>)
AuthUrl == <<"authorizationUrl", S1("https://auth.example.com/authorize")>>
TokenUrl == <<"tokenUrl", S1("https://auth.example.com/token")>>
OAuth2(flow, urls) ==
  Obj(<< <<"type", S1("oauth2")>>,
         <<"flows", Obj(<< <<flow, Obj(urls \o << <<"scopes", Scopes>> >>)>> >>)>> >>)

SecuritySchemes ==
  {Obj(<< <<"type", S1("http")>>, <<"scheme", S1("basic")>> >>),
   Obj(<< <<"type", S1("http")>>, <<"scheme", S1("bearer")>>,
          <<"description", S1("a token")>> >>),
   Obj(<< <<"type", S1("http")>>, <<"scheme", S1("digest")>> >>),
   Obj(<< <<"type", S1("apiKey")>>, <<"name", S1("X-Key")>>, <<"in", S1("header")>> >>),
   OAuth2("implicit", <<AuthUrl>>),
   OAuth2("clientCredentials", <<TokenUrl>>),
   OAuth2("authorizationCode", <<AuthUrl, TokenUrl>>),
   Obj(<< <<"type", S1("openIdConnect")>>,
          <<"openIdConnectUrl", S1("https://auth.example.com/.well-known")>> >>)}

\* a schema registry: Pet, and one schema that uses a composition keyword
Registry(name, schema) == Obj(<< <<"Pet", PetSchema>>, <<name, schema>> >>)

Registries ==
  {Undef,
   Registry("Owner", Obj(<< <<"type", S1("object")>>,
                            <<"properties", Obj(<< <<"pet", ModernRef("Pet")>> >>)>> >>)),
   Registry("Id", Obj(<< <<"anyOf", Arr(<<Typed("string"), Typed("integer")>>)>> >>)),
   Registry("Dog", Obj(<< <<"allOf", Arr(<<ModernRef("Pet"),
                                           Obj(<< <<"required", Arr(<<S1("name")>>)>> >>)>>)>> >>)),
   Registry("Cat", Obj(<< <<"not", Typed("string")>> >>))}

QueryParam(name, schema) ==
  Lit(<< <<"name", S1(name)>>, <<"in", S1("query")>>, <<"schema", schema>> >>)

JsonContent(schema) == Obj(<< <<JsonType, Obj(<< <<"schema", schema>> >>)>> >>)

PathSets ==
  {EmptyObj,
   Paths(PathItem(Undef, "get",
                  Operation(Arr(<<QueryParam("limit", Typed("integer"))>>), Undef,
                            Obj(<< <<"200", Obj(<< <<"description", S1("ok")>>,
                                                   <<"content", JsonContent(ModernRef("Pet"))>>
                                                >>)>> >>)))),
   Paths(PathItem(Arr(<<QueryParam("verbose", Typed("boolean"))>>), "post",
                  Operation(Undef,
                            Obj(<< <<"required", Bool(TRUE)>>,
                                   <<"content", JsonContent(ModernRef("Pet"))>> >>),
                            Obj(<< <<"201", OkResponse>> >>))))}

ModernComponents(schemas, scheme) ==
  IF schemas = Undef /\ scheme = Undef THEN Undef
  ELSE Lit(<< <<"schemas", schemas>>,
              <<"securitySchemes",
                IF scheme = Undef THEN Undef ELSE Obj(<< <<"auth", scheme>> >>)>> >>)

\* well-formed modern documents: every combination of servers, security
\* scheme, registry and paths
ModernDocs ==
  {ModernDoc(servers, ModernComponents(schemas, scheme), paths) :
     servers \in ServerLists, schemas \in Registries,
     scheme \in SecuritySchemes \cup {Undef}, paths \in PathSets}

RECURSIVE ListsUpTo(_, _)
\* the lists of at most n members of S
ListsUpTo(S, n) ==
  IF n = 0 THEN {<<>>}
  ELSE ListsUpTo(S, n - 1) \cup {Append(l, x) : l \in ListsUpTo(S, n - 1), x \in S}

\* a registry schema nested inside MaxDepth keywords
MaxDepth == 2

SchemaLeaves == {ModernRef("Pet"), Typed("string")}

\* a schema in the place of: a property, the items of an array, the non-null
\* member of a nullable union, a member of a two-way union, a member of an
\* allOf, a property next to an enum of objects
Wrappers(schema) ==
  {Obj(<< <<"type", S1("object")>>, <<"properties", Obj(<< <<"item", schema>> >>)>> >>),
   Obj(<< <<"type", S1("array")>>, <<"items", schema>> >>),
   Obj(<< <<"oneOf", Arr(<<schema, NullSchema>>)>> >>),
   Obj(<< <<"anyOf", Arr(<<schema, Typed("string")>>)>> >>),
   Obj(<< <<"allOf", Arr(<<schema, Obj(<< <<"required", Arr(<<S1("name")>>)>> >>)>>)>> >>),
   Obj(<< <<"type", S1("object")>>,
          <<"enum", Arr(<<Obj(<< <<"kind", S1("cat")>> >>)>>)>>,
          <<"properties", Obj(<< <<"item", schema>> >>)>> >>)}

RECURSIVE SchemasUpTo(_)
SchemasUpTo(depth) ==
  IF depth = 0 THEN SchemaLeaves
  ELSE SchemaLeaves \cup UNION {Wrappers(schema) : schema \in SchemasUpTo(depth - 1)}

\* modern documents whose registry holds Pet and one nested schema
SchemaDocs ==
  {ModernDoc(Undef, ModernComponents(Registry("Owner", schema), Undef), EmptyObj) :
     schema \in SchemasUpTo(MaxDepth)}

\* the longest parameter list of one level
MaxParams == 2

Param(name, location, schema) ==
  Lit(<< <<"name", S1(name)>>, <<"in", S1(location)>>, <<"schema", schema>> >>)

\* parameters whose schema is absent, empty, typed, an array without items, a
\* bare pointer, a pointer with a sibling key, a composition; two cookie
\* parameters; and a reference to a reusable parameter
Parameters ==
  {Param("limit", "query", Undef),
   Param("limit", "query", EmptyObj),
   Param("limit", "query", Typed("integer")),
   Param("tags", "query", Typed("array")),
   Param("X-Pet", "header", ModernRef("Pet")),
   Param("petId", "path", Obj(<< <<"$ref", Pointer(ModernPrefix, "Pet")>>,
                                 <<"description", S1("a pet")>> >>)),
   Param("flag", "query", Obj(<< <<"anyOf", Arr(<<Typed("boolean"), NullSchema>>)>> >>)),
   Param("session", "cookie", Typed("string")),
   Param("pet", "cookie", ModernRef("Pet")),
   Obj(<< <<"$ref", S1("#/components/parameters/Limit")>> >>)}

ParameterLists == {Arr(l) : l \in ListsUpTo(Parameters, MaxParams)}

\* the parameter list of the other level
OtherLevel ==
  {Undef, Arr(<<Param("session", "cookie", Typed("string")), Param("limit", "query", Undef)>>)}

ParamDoc(pathLevel, operationLevel) ==
  ModernDoc(Undef, Undef,
            Paths(PathItem(pathLevel, "get",
                           Operation(operationLevel, Undef, Obj(<< <<"200", OkResponse>> >>)))))

\* modern documents with parameters at the path level and at the operation level
ParamDocs ==
  {ParamDoc(l, o) : l \in ParameterLists, o \in OtherLevel}
    \cup {ParamDoc(o, l) : l \in ParameterLists, o \in OtherLevel}

\* the most media types of one request body
MaxMedia == 2

Media(mediaType, schema) == <<mediaType, Lit(<< <<"schema", schema>> >>)>>

UnionSchema == Obj(<< <<"anyOf", Arr(<<Typed("string"), Typed("integer")>>)>> >>)

MediaEntries ==
  {Media(JsonType, ModernRef("Pet")), Media(JsonType, Undef),
   Media("application/xml", Typed("string")), Media("text/plain", UnionSchema)}

\* content maps: no media type is declared twice
ContentMaps ==
  {Obj(l) : l \in {m \in ListsUpTo(MediaEntries, MaxMedia) :
                     \A i, j \in 1..Len(m) : i # j => m[i][1] # m[j][1]}}

RequestBodies ==
  {Undef} \cup {Lit(<< <<"required", required>>, <<"content", content>> >>) :
                  required \in {Undef, Bool(TRUE)}, content \in ContentMaps \cup {Undef}}

ResponseContents ==
  {Undef,
   Obj(<<Media(JsonType, ModernRef("Pet"))>>),
   Obj(<<Media("application/xml", Typed("string")), Media(JsonType, ModernRef("Pet"))>>),
   Obj(<<Media("text/plain", UnionSchema)>>),
   Obj(<<Media("application/xml", Typed("string")), Media("text/plain", UnionSchema)>>)}

BodyDoc(parameters, requestBody, content) ==
  ModernDoc(Undef, ModernComponents(Registry("Id", UnionSchema), Undef),
            Paths(PathItem(Undef, "post",
                           Operation(parameters, requestBody,
                                     Obj(<< <<"200", Lit(<< <<"description", S1("ok")>>,
                                                            <<"content", content>> >>)>> >>)))))

\* modern documents with one operation: request body and response content vary
BodyDocs ==
  {BodyDoc(parameters, requestBody, content) :
     parameters \in {Undef, Arr(<<Param("limit", "query", Typed("integer"))>>)},
     requestBody \in RequestBodies, content \in ResponseContents}

\* the longest produces list of an operation
MaxProduces == 2

ProducesLists ==
  {Undef} \cup {Arr(l) : l \in ListsUpTo({S1(JsonType), S1("application/xml")}, MaxProduces)}

GlobalProduces == {Undef, Arr(<<>>), Arr(<<S1("text/plain")>>)}

ResponseSchemas ==
  {Undef, Typed("string"), LegacyRef("Pet"),
   Obj(<< <<"type", S1("array")>>, <<"items", LegacyRef("Owner")>> >>),
   Obj(<< <<"allOf", Arr(<<LegacyRef("Pet"), Typed("object")>>)>> >>)}

LegacyParameters ==
  {Undef,
   Arr(<<Obj(<< <<"name", S1("body")>>, <<"in", S1("body")>>, <<"schema", LegacyRef("Dog")>> >>),
         Obj(<< <<"name", S1("limit")>>, <<"in", S1("query")>>, <<"type", S1("integer")>> >>)>>)}

LegacyDefinitions ==
  {Undef,
   Obj(<< <<"Pet", PetSchema>>,
          <<"Owner", Obj(<< <<"type", S1("object")>>,
                            <<"properties", Obj(<< <<"pet", LegacyRef("Pet")>> >>)>> >>)>>,
          <<"Dog", Obj(<< <<"allOf", Arr(<<LegacyRef("Pet"), Typed("object")>>)>> >>)>> >>)}

LegacyOperation(produces, parameters, response) ==
  Lit(<< <<"operationId", S1("listPets")>>,
         <<"produces", produces>>,
         <<"parameters", parameters>>,
         <<"responses", Obj(<< <<"200", response>> >>)>> >>)

\* well-formed legacy documents with one operation and one response
LegacyDocs ==
  {LegacyDoc(<< <<"produces", global>> >>,
             Paths(PathItem(Undef, "get",
                            LegacyOperation(produces, parameters,
                                            Lit(<< <<"description", description>>,
                                                   <<"schema", schema>> >>)))),
             definitions) :
     global \in GlobalProduces, produces \in ProducesLists, parameters \in LegacyParameters,
     description \in {Undef, S1("ok")}, schema \in ResponseSchemas,
     definitions \in LegacyDefinitions}

\* the most names of one registry, and the most paths
MaxNames == 2

\* the lists of at most n members of S, no member twice
DistinctListsUpTo(S, n) ==
  {l \in ListsUpTo(S, n) : \A i, j \in 1..Len(l) : i # j => l[i] # l[j]}

ApiKeyScheme == Obj(<< <<"type", S1("apiKey")>>, <<"name", S1("X-Key")>>, <<"in", S1("header")>> >>)

\* a map that gives every name of a list the same value
Named(names, value) == Obj([i \in 1..Len(names) |-> <<names[i], value>>])

\* names a schema may have; 'not' is one a document may use
SchemaNames == {"Pet", "Owner", "not"}
SchemeNames == {"auth", "key"}
PathNames == {"/pets", "/owners"}

\* well-formed modern documents: the names of the schemas, of the security
\* schemes and of the paths vary
NameDocs ==
  {ModernDoc(Undef,
             Obj(<< <<"schemas", Named(schemas, PetSchema)>>,
                    <<"securitySchemes", Named(schemes, ApiKeyScheme)>> >>),
             Named(paths, PathItem(Undef, "get", Operation(Undef, Undef,
                                                           Obj(<< <<"200", OkResponse>> >>))))) :
     schemas \in DistinctListsUpTo(SchemaNames, MaxNames),
     schemes \in DistinctListsUpTo(SchemeNames, MaxNames),
     paths \in DistinctListsUpTo(PathNames, MaxNames)}

\* the longest list of members of one union
MaxMembers == 3

\* the members of a union: typed schemas, two of them of one type, the null
\* schema, a pointer, and a schema that is itself a union
DateSchema ==
  Obj(<< <<"type", S1("string")>>, <<"format", S1("date")>>, <<"description", S1("a date")>> >>)

NestedUnion == Obj(<< <<"anyOf", Arr(<<Typed("number"), Typed("array")>>)>> >>)

UnionMembers ==
  {Typed("string"), DateSchema, Typed("integer"), Typed("boolean"), NullSchema,
   ModernRef("Pet"), NestedUnion}

UnionKeys == {"oneOf", "anyOf"}

\* modern documents whose registry holds Pet and one union schema
UnionDocs ==
  {ModernDoc(Undef, ModernComponents(Registry("Owner", Obj(<< <<key, Arr(members)>> >>)), Undef),
             EmptyObj) :
     key \in UnionKeys, members \in ListsUpTo(UnionMembers, MaxMembers) \ {<<>>}}

-----------------------------------------------------------------------------
(* The page component: its state and its handlers *)

\* the state null of yamlContent and of swaggerContent
NullText == [parses |-> FALSE, value |-> Null]

\* what handleConvert holds while it awaits: the yamlContent and the direction
\* of the render it was called in
NoClosure == [yamlContent |-> NullText, direction |-> "none"]

NoToast == [kind |-> "none", message |-> <<>>]
ToastError(message) == [kind |-> "error", message |-> message]
ToastSuccess(message) == [kind |-> "success", message |-> message]

\* the useState initial values; toast is the last notification shown, and
\* awaiting the handleConvert call that is in its delay
InitialPage ==
  [isConverting |-> FALSE, yamlContent |-> NullText, swaggerContent |-> Null,
   conversionWarnings |-> <<>>, direction |-> A2B, hasInput |-> FALSE,
   toast |-> NoToast, awaiting |-> NoClosure]

\* a check of the dialect that lets everything through
MismatchNever(dir, detected) == FALSE

\* the content does not match the direction
Mismatch(dir, detected) ==
  \/ dir = A2B /\ detected # "openapi3"
  \/ dir = B2A /\ detected # "swagger2"

expectedType(dir) == IF dir = A2B THEN "OpenAPI 3.x" ELSE "Swagger 2.0"

actualType(detected) ==
  IF detected = "openapi3" THEN "OpenAPI 3.x"
  ELSE IF detected = "swagger2" THEN "Swagger 2.0"
  ELSE "Unknown"

clearInput(p) ==
  [p EXCEPT !.yamlContent = NullText, !.swaggerContent = Null,
            !.conversionWarnings = <<>>, !.hasInput = FALSE]

handleFileUpload(p, content) ==
  IF Mismatch(p.direction, detectSpecType(content))
    THEN [p EXCEPT !.yamlContent = NullText, !.swaggerContent = Null,
                   !.conversionWarnings = <<>>, !.hasInput = FALSE,
                   !.toast = ToastError(<<"Expected ", expectedType(p.direction),
                                          " specification but detected ",
                                          actualType(detectSpecType(content))>>)]
    ELSE [p EXCEPT !.yamlContent = content, !.swaggerContent = Null,
                   !.conversionWarnings = <<>>, !.hasInput = TRUE]

handleContentSubmit(p, content) ==
  [p EXCEPT !.yamlContent = content, !.swaggerContent = Null,
            !.conversionWarnings = <<>>, !.hasInput = TRUE]

handleContentChange(p, hasContent) == [p EXCEPT !.hasInput = hasContent]

toggleDirection(p, checked) ==
  [(IF p.yamlContent # NullText
        /\ Mismatch(IF checked THEN B2A ELSE A2B, detectSpecType(p.yamlContent))
      THEN clearInput(p) ELSE p)
   EXCEPT !.direction = IF checked THEN B2A ELSE A2B,
          !.swaggerContent = Null, !.conversionWarnings = <<>>]

\* handleConvert up to its await
ConvertStarted(p) ==
  [p EXCEPT !.isConverting = TRUE,
            !.awaiting = [yamlContent |-> p.yamlContent, direction |-> p.direction]]

\* throw new Error(`Expected ${expectedType} specification. Conversion cannot proceed.`)
CannotProceed(dir) ==
  <<"Expected ", expectedType(dir), " specification. Conversion cannot proceed.">>

successMessage(dir) ==
  IF dir = A2B THEN <<"Successfully converted to Swagger 2.0">>
  ELSE <<"Successfully converted to OpenAPI 3.0">>

\* handleConvert after convertSpecification has returned or thrown
ConvertFinished(p, dir, conversionResult) ==
  IF conversionResult.status = "ok"
    THEN [p EXCEPT !.swaggerContent = conversionResult.output,
                   !.conversionWarnings = conversionResult.warnings,
                   !.toast = ToastSuccess(successMessage(dir)),
                   !.isConverting = FALSE, !.awaiting = NoClosure]
    ELSE [p EXCEPT !.toast = ToastError(conversionResult.error.message),
                   !.isConverting = FALSE, !.awaiting = NoClosure]

\* handleConvert when the check of the dialect fails
ConvertRefused(p, dir) ==
  [p EXCEPT !.toast = ToastError(CannotProceed(dir)),
            !.isConverting = FALSE, !.awaiting = NoClosure]

\* the texts a user uploads or pastes
PageTexts ==
  {ModernDoc(Undef, Undef, EmptyObj),
   ModernDoc(Arr(<<Server(RelativeUrl)>>), Undef, EmptyObj),
   LegacyDoc(<<>>, EmptyObj, Undef),
   TextOf(Lit(<< <<"openapi", Str(<<"3.", "0.0">>)>>, <<"swagger", S1("2.0")>>,
                 <<"info", Info>>, <<"paths", EmptyObj>> >>)),
   TextOf(S1("hello")),
   Unparseable}

\* members of an allOf: inline schemas with properties and required lists
\* (the second has a property of the first again), a pointer, and an inline
\* schema one of whose properties is a pointer
NamedPart ==
  Obj(<< <<"properties", Obj(<< <<"name", Typed("string")>> >>)>>,
         <<"required", Arr(<<S1("name")>>)>> >>)
AgedPart ==
  Obj(<< <<"properties", Obj(<< <<"name", Typed("integer")>>, <<"age", Typed("integer")>> >>)>>,
         <<"required", Arr(<<S1("age")>>)>> >>)
OwnedPart ==
  Obj(<< <<"type", S1("object")>>,
         <<"properties", Obj(<< <<"pet", ModernRef("Pet")>> >>)>> >>)
RequiredPart == Obj(<< <<"required", Arr(<<S1("name")>>)>> >>)
AllOfMembers == {NamedPart, AgedPart, OwnedPart, RequiredPart, ModernRef("Pet")}

\* the fields a schema has next to its allOf: none, or properties of its own
OwnFields == {<<>>, << <<"properties", Obj(<< <<"id", Typed("integer")>> >>)>> >>}

\* well-formed modern documents whose schema Owner has an allOf
AllOfDocs ==
  {ModernDoc(Undef,
             ModernComponents(Registry("Owner", Obj(<< <<"allOf", Arr(members)>> >> \o own)), Undef),
             EmptyObj) :
     members \in ListsUpTo(AllOfMembers, MaxMembers) \ {<<>>}, own \in OwnFields}

MaxValues == 2

\* values of an enum: a string, an object, an array
EnumValues == {S1("cat"), Obj(<< <<"kind", S1("cat")>> >>), Arr(<<S1("cat")>>)}

EnumTypes == {"string", "integer", "number", "boolean", "array", "object"}

\* a schema with a declared type and an enum, the keys in either order, with
\* or without a description
EnumSchemas ==
  {Lit(IF typeFirst
         THEN << <<"type", S1(ty)>>, <<"enum", Arr(values)>>, <<"description", description>> >>
         ELSE << <<"enum", Arr(values)>>, <<"description", description>>, <<"type", S1(ty)>> >>) :
     ty \in EnumTypes, values \in ListsUpTo(EnumValues, MaxValues) \ {<<>>},
     description \in {Undef, S1("A kind.")}, typeFirst \in BOOLEAN}

\* well-formed modern documents whose schema Owner has an enum
EnumDocs ==
  {ModernDoc(Undef, ModernComponents(Registry("Owner", schema), Undef), EmptyObj) :
     schema \in EnumSchemas}

\* names a property may have; 'not', 'anyOf', 'oneOf' and 'allOf' are names
\* like any other in a properties map
PropertyKeys == {"name", "not", "anyOf", "oneOf", "allOf"}

\* schemas with nothing to rewrite: an object type whose properties are
\* strings or pointers with the legacy prefix
PlainSchemas ==
  {Obj(<< <<"type", S1("object")>>, <<"properties", Named(names, value)>> >>) :
     names \in DistinctListsUpTo(PropertyKeys, MaxNames) \ {<<>>},
     value \in {Typed("string"), LegacyRef("Pet")}}

\* well-formed modern documents whose schema Owner needs no rewriting
PlainDocs ==
  {ModernDoc(Undef, ModernComponents(Registry("Owner", schema), Undef), EmptyObj) :
     schema \in PlainSchemas}

\* the flows of the modern dialect, in the order the mapper looks for them,
\* and the URL fields each of them has
FlowNames == <<"implicit", "password", "clientCredentials", "authorizationCode">>

FlowUrls(flow) ==
  (IF flow \in {"implicit", "authorizationCode"}
     THEN << <<"authorizationUrl", Str(<<"https://auth.example.com/authorize/", flow>>)>> >>
     ELSE <<>>)
  \o (IF flow \in {"password", "clientCredentials", "authorizationCode"}
        THEN << <<"tokenUrl", Str(<<"https://auth.example.com/token/", flow>>)>> >>
        ELSE <<>>)

\* a flow object; its scope is named after the flow
Flow(flow, scoped) ==
  Obj(FlowUrls(flow)
      \o (IF scoped THEN << <<"scopes", Obj(<< <<flow, S1("access")>> >>)>> >> ELSE <<>>))

\* the flows objects: any flows, declared in the order of FlowNames or in
\* the opposite order, all with scopes or all without
FlowsObjects ==
  {Obj([i \in 1..Len(flows) |->
          <<(IF reversed THEN flows[Len(flows) + 1 - i] ELSE flows[i]),
            Flow(IF reversed THEN flows[Len(flows) + 1 - i] ELSE flows[i], scoped)>>]) :
     flows \in {SelectSeq(FlowNames, LAMBDA f : f \in chosen) : chosen \in (SUBSET {"implicit", "password", "clientCredentials", "authorizationCode"}) \ {{}}},
     reversed \in BOOLEAN, scoped \in BOOLEAN}

\* the security schemes of the modern dialect other than openIdConnect
MappedSchemes ==
  {Obj(<< <<"type", S1("http")>>, <<"scheme", S1("basic")>> >>),
   Obj(<< <<"type", S1("http")>>, <<"scheme", S1("bearer")>> >>),
   Obj(<< <<"type", S1("apiKey")>>, <<"name", S1("X-Key")>>, <<"in", S1("header")>> >>),
   Obj(<< <<"type", S1("apiKey")>>, <<"name", S1("key")>>, <<"in", S1("query")>> >>)}
  \cup {Obj(<< <<"type", S1("oauth2")>>, <<"flows", flows>> >>) : flows \in FlowsObjects}

\* well-formed modern documents: the security scheme varies, with and
\* without a description
SchemeDocs ==
  {ModernDoc(Undef,
             ModernComponents(Undef, Lit(scheme.kv \o << <<"description", description>> >>)),
             EmptyObj) :
     scheme \in MappedSchemes, description \in {Undef, S1("How to sign in.")}}

\* a cookie parameter, the one finding of a path item or of an operation
CookieList(present) ==
  IF present THEN Arr(<<Param("session", "cookie", Typed("string"))>>) ELSE Undef

\* a path item with the operations get and post; each level has a cookie
\* parameter or none
CookiePathItem(levels) ==
  Lit(<< <<"parameters", CookieList(levels[1])>>,
         <<"get", Operation(CookieList(levels[2]), Undef, Obj(<< <<"200", OkResponse>> >>))>>,
         <<"post", Operation(CookieList(levels[3]), Undef, Obj(<< <<"200", OkResponse>> >>))>> >>)

Levels == BOOLEAN \X BOOLEAN \X BOOLEAN

\* modern documents with findings of both kinds: callbacks, a named schema
\* with a union, two servers; cookie parameters at the levels of two paths
FindingDocs ==
  {ModernDoc(IF manyServers THEN Arr(<<Server(AbsoluteUrl), Server(BareUrl)>>) ELSE Undef,
             Lit(<< <<"callbacks", IF callbacks THEN EmptyObj ELSE Undef>>,
                    <<"schemas", IF union
                                   THEN Registry("Id", Obj(<< <<"anyOf", Arr(<<Typed("string"), Typed("integer")>>)>> >>))
                                   ELSE Obj(<< <<"Pet", PetSchema>> >>)>> >>),
             Obj(<< <<"/pets", CookiePathItem(pets)>>, <<"/owners", CookiePathItem(owners)>> >>)) :
     manyServers \in BOOLEAN, callbacks \in BOOLEAN, union \in BOOLEAN,
     pets \in Levels, owners \in Levels}

\* parameters of the legacy dialect: a body, required or not; two of a form,
\* one of them a required file; an optional integer and a required array in
\* the query; and a pointer to a reusable parameter
BodyOf(required) ==
  Lit(<< <<"name", S1("body")>>, <<"in", S1("body")>>, <<"required", required>>,
         <<"schema", LegacyRef("Pet")>> >>)
FileField ==
  Obj(<< <<"name", S1("photo")>>, <<"in", S1("formData")>>, <<"type", S1("file")>>,
         <<"required", Bool(TRUE)>> >>)
NoteField ==
  Obj(<< <<"name", S1("note")>>, <<"in", S1("formData")>>, <<"type", S1("string")>> >>)
OptionalLimit ==
  Obj(<< <<"name", S1("limit")>>, <<"in", S1("query")>>, <<"type", S1("integer")>>,
         <<"format", S1("int32")>>, <<"required", Bool(FALSE)>> >>)
RequiredTags ==
  Obj(<< <<"name", S1("tags")>>, <<"in", S1("query")>>, <<"type", S1("array")>>,
         <<"items", Typed("string")>>, <<"enum", Arr(<<S1("cat")>>)>>,
         <<"required", Bool(TRUE)>> >>)
SharedParameter == Obj(<< <<"$ref", Pointer(LegacyPrefix, "Pet")>> >>)

LegacyParameterPool ==
  {BodyOf(Bool(TRUE)), BodyOf(Undef), FileField, NoteField, OptionalLimit, RequiredTags,
   SharedParameter}

\* lists of distinct parameters with at most one body
LegacyParameterLists ==
  {l \in DistinctListsUpTo(LegacyParameterPool, MaxParams) :
     Cardinality({i \in 1..Len(l) : IsLit(Get(l[i], "in"), "body")}) <= 1}

ConsumesLists ==
  {Undef, Arr(<<S1("application/xml")>>), Arr(<<S1("application/xml"), S1(JsonType)>>)}

GlobalConsumes == {Undef, Arr(<<S1("text/plain")>>), Arr(<<S1(JsonType)>>)}

\* the parameters a path item shares among its operations
SharedLists == {Undef, Arr(<<NoteField, OptionalLimit>>), Arr(<<BodyOf(Bool(TRUE))>>)}

\* well-formed legacy documents with one operation: its parameters, its
\* consumes, the global consumes and the parameters of the path item vary
RequestDocs ==
  {LegacyDoc(<< <<"consumes", global>> >>,
             Paths(PathItem(shared, "post",
                            Lit(<< <<"operationId", S1("addPet")>>,
                                   <<"consumes", consumes>>,
                                   <<"parameters", IF parameters = <<>> THEN Undef ELSE Arr(parameters)>>,
                                   <<"responses", Obj(<< <<"200", OkResponse>> >>)>> >>))),
             Obj(<< <<"Pet", PetSchema>> >>)) :
     global \in GlobalConsumes, consumes \in ConsumesLists,
     parameters \in LegacyParameterLists, shared \in SharedLists}

\* keys a path item may have next to its operations: a summary, a
\* description, servers, an extension, and a method with no value
OtherKeys ==
  {<<"summary", S1("The pets.")>>, <<"description", S1("All about pets.")>>,
   <<"servers", Arr(<<Server(AbsoluteUrl)>>)>>, <<"x-internal", Bool(TRUE)>>,
   <<"put", Null>>}

\* a path item with the operation get and other keys, before or after it
KeyedPathItems ==
  {Obj(IF first THEN others \o << <<"get", Operation(Undef, Undef, Obj(<< <<"200", OkResponse>> >>))>> >>
       ELSE << <<"get", Operation(Undef, Undef, Obj(<< <<"200", OkResponse>> >>))>> >> \o others) :
     others \in DistinctListsUpTo(OtherKeys, MaxNames), first \in BOOLEAN}

\* documents of the two dialects whose path item has keys that are no
\* operations
KeyedDocs ==
  {ModernDoc(Undef, Undef, Paths(pathItem)) : pathItem \in KeyedPathItems}
    \cup {LegacyDoc(<<>>, Paths(pathItem), Undef) : pathItem \in KeyedPathItems}

-----------------------------------------------------------------------------
(* The engine as a state machine: a text is held, and the exported functions *)
(* are applied to it.                                                        *)

Directions == {A2B, B2A}

TypeOK ==
  /\ direction \in Directions \cup {"none"}
  /\ outcome.status \in {"none", "ok", "thrown"}
  /\ specType \in {"none", "openapi3", "swagger2", "unknown"}
  /\ page.isConverting \in BOOLEAN
  /\ page.hasInput \in BOOLEAN
  /\ page.direction \in Directions
  /\ page.toast.kind \in {"none", "error", "success"}

InitWith(texts) ==
  /\ yamlContent \in texts
  /\ direction = "none"
  /\ outcome = NoOutcome
  /\ specType = "none"
  /\ page = InitialPage

ConvertSpecification(dir) ==
  /\ outcome' = convertSpecification(yamlContent, dir)
  /\ direction' = dir
  /\ UNCHANGED <<yamlContent, specType, page>>

DetectSpecType ==
  /\ specType' = detectSpecType(yamlContent)
  /\ UNCHANGED <<yamlContent, direction, outcome, page>>

Next ==
  \/ \E dir \in Directions : ConvertSpecification(dir)
  \/ DetectSpecType

\* the classifier and the two validations, over every marker combination
Init == InitWith(ClassifyTexts)
Spec == Init /\ [][Next]_vars

\* the modern -> legacy conversion over well-formed modern documents
InitModern == InitWith(ModernDocs)
SpecModern == InitModern /\ [][Next]_vars

\* the rewriter over nested registry schemas
InitSchemas == InitWith(SchemaDocs)
SpecSchemas == InitSchemas /\ [][Next]_vars

\* the parameter normalizer over parameter lists
InitParams == InitWith(ParamDocs)
SpecParams == InitParams /\ [][Next]_vars

\* the operation converter over request bodies and response contents
InitBodies == InitWith(BodyDocs)
SpecBodies == InitBodies /\ [][Next]_vars

\* the legacy -> modern conversion over well-formed legacy documents
InitLegacy == InitWith(LegacyDocs)
SpecLegacy == InitLegacy /\ [][Next]_vars

\* the modern -> legacy conversion over registry and path names
InitNames == InitWith(NameDocs)
SpecNames == InitNames /\ [][Next]_vars

\* the rewriter over the unions of a registry schema
InitUnions == InitWith(UnionDocs)
SpecUnions == InitUnions /\ [][Next]_vars

InitAllOf == InitWith(AllOfDocs)
SpecAllOf == InitAllOf /\ [][Next]_vars

InitEnums == InitWith(EnumDocs)
SpecEnums == InitEnums /\ [][Next]_vars

InitPlain == InitWith(PlainDocs)
SpecPlain == InitPlain /\ [][Next]_vars

InitSchemes == InitWith(SchemeDocs)
SpecSchemes == InitSchemes /\ [][Next]_vars

InitFindings == InitWith(FindingDocs)
SpecFindings == InitFindings /\ [][Next]_vars

\* the legacy -> modern conversion over the parameters of an operation
InitRequests == InitWith(RequestDocs)
SpecRequests == InitRequests /\ [][Next]_vars

InitKeyed == InitWith(KeyedDocs)
SpecKeyed == InitKeyed /\ [][Next]_vars

-----------------------------------------------------------------------------
(* The page component as a state machine: one action per handler; the     *)
(* handler that converts is two steps, before and after its delay.        *)

HandleFileUpload(content) ==
  /\ page' = handleFileUpload(page, content)
  /\ specType' = detectSpecType(content)
  /\ UNCHANGED <<yamlContent, direction, outcome>>

HandleContentSubmit(content) ==
  /\ page' = handleContentSubmit(page, content)
  /\ UNCHANGED <<yamlContent, direction, outcome, specType>>

HandleContentChange(hasContent) ==
  /\ page' = handleContentChange(page, hasContent)
  /\ UNCHANGED <<yamlContent, direction, outcome, specType>>

ClearInput ==
  /\ page.hasInput
  /\ page' = clearInput(page)
  /\ UNCHANGED <<yamlContent, direction, outcome, specType>>

ToggleDirection(checked) ==
  /\ checked = (page.direction = A2B)
  /\ page' = toggleDirection(page, checked)
  /\ specType' = IF page.yamlContent # NullText THEN detectSpecType(page.yamlContent)
                 ELSE specType
  /\ UNCHANGED <<yamlContent, direction, outcome>>

\* the button is there when yamlContent is set, and is disabled while
\* isConverting
HandleConvert ==
  /\ page.yamlContent # NullText
  /\ ~page.isConverting
  /\ page' = ConvertStarted(page)
  /\ UNCHANGED <<yamlContent, direction, outcome, specType>>

\* the delay is over and the dialect does not match: nothing is converted
ConvertRefuse ==
  /\ page.awaiting # NoClosure
  /\ Mismatch(page.awaiting.direction, detectSpecType(page.awaiting.yamlContent))
  /\ page' = ConvertRefused(page, page.awaiting.direction)
  /\ specType' = detectSpecType(page.awaiting.yamlContent)
  /\ UNCHANGED <<yamlContent, direction, outcome>>

\* the delay is over and the dialect matches: convertSpecification is called
ConvertProceed ==
  /\ page.awaiting # NoClosure
  /\ ~Mismatch(page.awaiting.direction, detectSpecType(page.awaiting.yamlContent))
  /\ yamlContent' = page.awaiting.yamlContent
  /\ direction' = page.awaiting.direction
  /\ outcome' = convertSpecification(page.awaiting.yamlContent, page.awaiting.direction)
  /\ specType' = detectSpecType(page.awaiting.yamlContent)
  /\ page' = ConvertFinished(page, page.awaiting.direction,
                             convertSpecification(page.awaiting.yamlContent,
                                                  page.awaiting.direction))

NextPage ==
  \/ \E content \in PageTexts : HandleFileUpload(content)
  \/ \E content \in PageTexts : HandleContentSubmit(content)
  \/ \E hasContent \in BOOLEAN : HandleContentChange(hasContent)
  \/ ClearInput
  \/ \E checked \in BOOLEAN : ToggleDirection(checked)
  \/ HandleConvert
  \/ ConvertRefuse
  \/ ConvertProceed

\* the page from its first render on; no convertSpecification call yet
InitPage ==
  /\ yamlContent = Unparseable
  /\ direction = "none"
  /\ outcome = NoOutcome
  /\ specType = "none"
  /\ page = InitialPage
SpecPage == InitPage /\ [][NextPage]_vars

-----------------------------------------------------------------------------
(* Error handling *)

\* the token tok occurs in the token sequence s
Contains(s, tok) == \E i \in 1..Len(s) : s[i] = tok

\* the dialect a direction requires of its input
Required(dir) == IF dir = A2B THEN "openapi3" ELSE "swagger2"

\* the name a dialect goes by in messages
DialectName(class) ==
  CASE class = "openapi3" -> "OpenAPI 3.x"
    [] class = "swagger2" -> "Swagger 2.0"
    [] OTHER -> "Unknown"

\* C1: a well-formed modern document converted modern -> legacy always gives
\* a converted document with its warnings, and never an exception.
C1_ModernNeverThrows ==
  (direction = A2B /\ yamlContent \in ModernDocs) => outcome.status = "ok"

\* C2: a conversion that fails does so with one of two kinds of error (the
\* text does not parse, or the document is not of the dialect the direction
\* requires), raised before the scan for unsupported features and before any
\* part of the target document is built.
C2_TwoKindsBeforeConstruction ==
  outcome.status = "thrown" =>
    /\ outcome.error.kind \in {"YAMLException", "Error"}
    /\ outcome.stage \in {"parse", "validate"}

\* C3: a text that parses to a document of another dialect than the direction
\* requires fails with the dialect-mismatch error, whose message names the
\* detected and the expected dialect.
C3_MismatchNamesBothDialects ==
  (direction # "none" /\ yamlContent.parses
     /\ detectSpecType(yamlContent) # Required(direction)) =>
    /\ outcome.status = "thrown"
    /\ outcome.error.kind = "Error"
    /\ Contains(outcome.error.message, DialectName(Required(direction)))
    /\ Contains(outcome.error.message, DialectName(detectSpecType(yamlContent)))

-----------------------------------------------------------------------------
(* Classification *)

\* the document has a top-level string field openapi that starts with '3.'
HasModernMarker(text) ==
  /\ text.parses
  /\ text.value.t = "obj"
  /\ \E i \in 1..Len(text.value.kv) :
       /\ text.value.kv[i][1] = "openapi"
       /\ text.value.kv[i][2].t = "str"
       /\ text.value.kv[i][2].s # <<>>
       /\ text.value.kv[i][2].s[1] = "3."

\* the document has a top-level field swagger equal to '2.0'
HasLegacyMarker(text) ==
  /\ text.parses
  /\ text.value.t = "obj"
  /\ \E i \in 1..Len(text.value.kv) : text.value.kv[i] = <<"swagger", Str(<<"2.0">>)>>

\* C4: detectSpecType answers for every text, with 'openapi3' when the modern
\* marker is there, else 'swagger2' when the legacy marker is there, else
\* 'unknown'; so a text that does not parse or is no mapping is 'unknown' and
\* a document with both markers is 'openapi3'.
C4_Classification ==
  specType # "none" =>
    specType = (IF HasModernMarker(yamlContent) THEN "openapi3"
                ELSE IF HasLegacyMarker(yamlContent) THEN "swagger2"
                ELSE "unknown")

\* a document with both markers has been classified
C4_BothMarkersClassified ==
  /\ HasModernMarker(yamlContent)
  /\ HasLegacyMarker(yamlContent)
  /\ specType = "openapi3"

-----------------------------------------------------------------------------
(* Registry pointers *)

\* the values directly inside a value
ChildrenOf(v) ==
  CASE v.t = "arr" -> {v.a[i] : i \in 1..Len(v.a)}
    [] v.t = "obj" -> {v.kv[i][2] : i \in 1..Len(v.kv)}
    [] OTHER -> {}

\* the string a value holds under the key $ref, if any
RefOf(v) ==
  IF v.t = "obj"
    THEN {v.kv[i][2].s : i \in {j \in 1..Len(v.kv) : v.kv[j][1] = "$ref" /\ v.kv[j][2].t = "str"}}
    ELSE {}

RECURSIVE RefsBelow(_, _)
\* found, and the $ref strings of the values nodes and of all that is inside them
RefsBelow(nodes, found) ==
  IF nodes = {} THEN found
  ELSE RefsBelow(UNION {ChildrenOf(v) : v \in nodes}, found \cup UNION {RefOf(v) : v \in nodes})

\* the strings that are the value of a $ref key somewhere in a tree
RefTargets(v) == RefsBelow({v}, {})

\* a pointer with the registry prefix from exchanged for the prefix to
Repointed(s, from, to) == [i \in 1..Len(s) |-> IF s[i] = from THEN to ELSE s[i]]

RECURSIVE RepointedTree(_, _, _)
\* a tree with every pointer repointed, and nothing else changed
RepointedTree(v, from, to) ==
  CASE v.t = "arr" -> Arr([i \in 1..Len(v.a) |-> RepointedTree(v.a[i], from, to)])
    [] v.t = "obj" ->
         Obj([i \in 1..Len(v.kv) |->
                IF v.kv[i][1] = "$ref" /\ v.kv[i][2].t = "str"
                  THEN <<"$ref", Str(Repointed(v.kv[i][2].s, from, to))>>
                  ELSE <<v.kv[i][1], RepointedTree(v.kv[i][2], from, to)>>])
    [] OTHER -> v

\* C5: after a modern -> legacy conversion no $ref string of the output, at
\* any depth, still holds the modern registry prefix.
C5_NoModernPointerLeft ==
  (direction = A2B /\ outcome.status = "ok") =>
    \A s \in RefTargets(outcome.output) : ~Contains(s, ModernPrefix)

\* C6: after a legacy -> modern conversion no $ref string of the output still
\* holds the legacy registry prefix: every pointer of the output is a pointer
\* of the source with the modern prefix before the same name, and every
\* pointer of the legacy registry is found again in the modern registry.
C6_NoLegacyPointerLeft ==
  (direction = B2A /\ outcome.status = "ok") =>
    /\ \A s \in RefTargets(outcome.output) : ~Contains(s, LegacyPrefix)
    /\ RefTargets(outcome.output)
         \subseteq {Repointed(s, LegacyPrefix, ModernPrefix) : s \in RefTargets(yamlContent.value)}
    /\ RefTargets(Get(Get(outcome.output, "components"), "schemas"))
         = {Repointed(s, LegacyPrefix, ModernPrefix) :
              s \in RefTargets(Get(yamlContent.value, "definitions"))}

\* a legacy document with a pointer inside an array has been converted, and
\* the pointer is found with the modern prefix
C6_ArrayMemberRepointed ==
  /\ direction = B2A
  /\ outcome.status = "ok"
  /\ <<LegacyPrefix, "Pet">> \in RefTargets(Get(Get(yamlContent.value, "definitions"), "Dog"))
  /\ RefTargets(Get(Get(Get(outcome.output, "components"), "schemas"), "Dog"))
       = {<<ModernPrefix, "Pet">>}

-----------------------------------------------------------------------------
(* Parameters *)

\* the parameters of one path item: those of the path level, then those of
\* each operation
ParametersOfPathItem(pathItem) ==
  Items(Get(pathItem, "parameters"))
    \o Flatten([i \in 1..Len(Entries(pathItem)) |->
                  IF Entries(pathItem)[i][1] = "parameters" THEN <<>>
                  ELSE Items(Get(Entries(pathItem)[i][2], "parameters"))])

\* every parameter of a document, in document order
AllParameters(doc) ==
  Flatten([i \in 1..Len(Entries(Get(doc, "paths"))) |->
             ParametersOfPathItem(Entries(Get(doc, "paths"))[i][2])])

\* how many members of a list satisfy P
Count(list, P(_)) == Cardinality({i \in 1..Len(list) : P(list[i])})

IsCookieParameter(param) == Get(param, "in") = Str(<<"cookie">>)

IsCookieWarning(warning) ==
  /\ warning # <<>>
  /\ warning[1] \in {"Cookie parameter at path level for \"", "Cookie parameter in "}
  /\ Contains(warning, "\" will be converted to a header parameter.")
       \/ Contains(warning, " will be converted to a header parameter.")

\* C7: in the legacy document a modern -> legacy conversion returns, every
\* parameter of the path level and of the operation level whose location is
\* not 'body' has a type field or a $ref field.
C7_ParametersTyped ==
  (direction = A2B /\ outcome.status = "ok") =>
    \A i \in 1..Len(AllParameters(outcome.output)) :
      \/ Get(AllParameters(outcome.output)[i], "in") = Str(<<"body">>)
      \/ HasKey(AllParameters(outcome.output)[i], "type")
      \/ HasKey(AllParameters(outcome.output)[i], "$ref")

\* a query parameter without a schema has been converted and has type string
C7_DefaultedToString ==
  /\ direction = A2B
  /\ outcome.status = "ok"
  /\ yamlContent = ParamDoc(Arr(<<Param("limit", "query", Undef)>>), Undef)
  /\ AllParameters(outcome.output)
       = << Obj(<< <<"name", Str(<<"limit">>)>>, <<"in", Str(<<"query">>)>>,
                   <<"type", Str(<<"string">>)>> >>) >>

\* the cookie parameters among source are headers among converted, which has
\* no cookie parameter, and warnings has one cookie warning for each of them
CookiesRelocated(source, converted, warnings) ==
  /\ Len(converted) = Len(source)
  /\ \A i \in 1..Len(converted) : ~IsCookieParameter(converted[i])
  /\ \A i \in 1..Len(source) :
       IsCookieParameter(source[i]) =>
         /\ Get(converted[i], "in") = Str(<<"header">>)
         /\ Get(converted[i], "name") = Get(source[i], "name")
  /\ Count(warnings, IsCookieWarning) = Count(source, IsCookieParameter)

\* C8: a modern -> legacy conversion moves every cookie parameter, of the
\* path level and of the operation level, to the location header, so that the
\* output has no cookie parameter, and returns exactly one cookie-to-header
\* warning for each cookie parameter of the source.
C8_CookiesToHeaders ==
  (direction = A2B /\ outcome.status = "ok") =>
    CookiesRelocated(AllParameters(yamlContent.value), AllParameters(outcome.output),
                     outcome.warnings)

\* a document with one cookie parameter has been converted: the parameter is
\* a header and there is one cookie warning
C8_OneCookieOneWarning ==
  /\ direction = A2B
  /\ outcome.status = "ok"
  /\ yamlContent = ParamDoc(Undef, Arr(<<Param("session", "cookie", Typed("string"))>>))
  /\ Get(AllParameters(outcome.output)[1], "in") = Str(<<"header">>)
  /\ Count(outcome.warnings, IsCookieWarning) = 1

-----------------------------------------------------------------------------
(* Request bodies and responses *)

\* the operation of a document at a path and a method
OperationAt(doc, path, method) == Get(Get(Get(doc, "paths"), path), method)

\* the response of an operation for a status code
ResponseAt(op, statusCode) == Get(Get(op, "responses"), statusCode)

\* the schema of the entry for JSON when the content map has one, otherwise
\* the schema of the first declared entry
SelectedSchema(content) ==
  IF HasKey(content, JsonType) THEN Get(Get(content, JsonType), "schema")
  ELSE IF IsObj(content) /\ Len(content.kv) > 0 THEN Get(content.kv[1][2], "schema")
  ELSE Undef

ManyMediaTypes(content) == IsObj(content) /\ Len(content.kv) > 1

IsBodyParameter(param) == Get(param, "in") = Str(<<"body">>)

\* 1 when the condition holds, otherwise 0
Once(condition) == IF condition THEN 1 ELSE 0

\* the request body of op is the one body parameter of out, the last of its
\* parameters, named body, with required copied and with the schema that
\* Rewritten makes of the selected schema
BodyFlattened(op, out, Rewritten(_)) ==
  Truthy(Get(op, "requestBody")) =>
    /\ Len(Items(Get(out, "parameters"))) = Len(Items(Get(op, "parameters"))) + 1
    /\ Count(Items(Get(out, "parameters")), IsBodyParameter) = 1
    /\ IsBodyParameter(Get(out, "parameters").a[Len(Get(out, "parameters").a)])
    /\ Get(Get(out, "parameters").a[Len(Get(out, "parameters").a)], "name") = Str(<<"body">>)
    /\ Get(Get(out, "parameters").a[Len(Get(out, "parameters").a)], "required")
         = Get(Get(op, "requestBody"), "required")
    /\ Get(Get(out, "parameters").a[Len(Get(out, "parameters").a)], "schema")
         = Rewritten(SelectedSchema(Get(Get(op, "requestBody"), "content")))

\* the response of op for a status code has in out the schema that Rewritten
\* makes of the selected schema
ResponseFlattened(op, out, statusCode, Rewritten(_)) ==
  Get(ResponseAt(out, statusCode), "schema")
    = Rewritten(SelectedSchema(Get(ResponseAt(op, statusCode), "content")))

\* one consolidation warning for the request body, and one for the response,
\* exactly when the content map has more than one media type
Consolidated(op, warnings, method, path, statusCode) ==
  /\ Count(warnings, LAMBDA w : w = WarnRequestTypes(method, path))
       = Once(ManyMediaTypes(Get(Get(op, "requestBody"), "content")))
  /\ Count(warnings, LAMBDA w : w = WarnResponseTypes(statusCode, method, path))
       = Once(ManyMediaTypes(Get(ResponseAt(op, statusCode), "content")))

Flattened(doc, out, warnings, Rewritten(_)) ==
  /\ BodyFlattened(OperationAt(doc, "/pets", "post"), OperationAt(out, "/pets", "post"),
                   Rewritten)
  /\ ResponseFlattened(OperationAt(doc, "/pets", "post"), OperationAt(out, "/pets", "post"),
                       "200", Rewritten)
  /\ Consolidated(OperationAt(doc, "/pets", "post"), warnings, "post", "/pets", "200")

\* C9, as the code has it: for a modern operation with a requestBody the
\* legacy operation has exactly one parameter with location body, named body,
\* after the other parameters, with required copied; its schema is what the
\* reference and composition rewriter makes of the schema of the JSON content
\* entry when there is one and otherwise of the first declared entry; the
\* schema of a response is selected and rewritten in the same way; and one
\* consolidation warning is returned for a request body or a response exactly
\* when its content map has more than one media type.
C9_FlattenedAndRewritten ==
  (direction = A2B /\ outcome.status = "ok") =>
    Flattened(yamlContent.value, outcome.output, outcome.warnings,
              LAMBDA schema : yamlDump(fixSwagger2References(schema)))

\* C9, as stated: the same, with the flattened schema equal to the selected
\* schema up to the prefix of its pointers.
C9_FlattenedUpToPointers ==
  (direction = A2B /\ outcome.status = "ok") =>
    Flattened(yamlContent.value, outcome.output, outcome.warnings,
              LAMBDA schema : RepointedTree(schema, ModernPrefix, LegacyPrefix))

\* a request body with an XML entry declared before the JSON entry has been
\* converted: the body parameter has the schema of the JSON entry, and the
\* consolidation warning is returned
C9_JsonPreferredOverFirst ==
  /\ direction = A2B
  /\ outcome.status = "ok"
  /\ Get(Get(OperationAt(yamlContent.value, "/pets", "post"), "requestBody"), "content")
       = Obj(<<Media("application/xml", Typed("string")), Media(JsonType, ModernRef("Pet"))>>)
  /\ Get(OperationAt(outcome.output, "/pets", "post"), "parameters").a
       [Len(Get(OperationAt(outcome.output, "/pets", "post"), "parameters").a)]
       = Obj(<< <<"name", Str(<<"body">>)>>, <<"in", Str(<<"body">>)>>,
                <<"schema", LegacyRef("Pet")>> >>)
  /\ Contains(outcome.warnings, WarnRequestTypes("post", "/pets"))

\* the media types a legacy response is produced in: those the operation
\* declares, otherwise those the document declares, otherwise JSON
Produced(doc, op) ==
  IF HasKey(op, "produces") THEN Items(Get(op, "produces"))
  ELSE IF HasKey(doc, "produces") THEN Items(Get(doc, "produces"))
  ELSE <<Str(<<JsonType>>)>>

\* a content map with one entry for each media type, each with the schema
IsContentOf(content, mediaTypes, schema) ==
  /\ IsObj(content)
  /\ {content.kv[i][1] : i \in 1..Len(content.kv)}
       = {mediaTypes[i].s[1] : i \in 1..Len(mediaTypes)}
  /\ Len(content.kv) = Cardinality({mediaTypes[i] : i \in 1..Len(mediaTypes)})
  /\ \A i \in 1..Len(content.kv) : content.kv[i][2] = Obj(<< <<"schema", schema>> >>)

\* the modern response converted is the legacy response source of the
\* operation op of the document doc
ResponseLifted(doc, op, source, converted) ==
  /\ Get(converted, "description")
       = (IF HasKey(source, "description") THEN Get(source, "description") ELSE Str(<<>>))
  /\ IF HasKey(source, "schema")
       THEN IsContentOf(Get(converted, "content"), Produced(doc, op),
                        RepointedTree(Get(source, "schema"), LegacyPrefix, ModernPrefix))
       ELSE ~HasKey(converted, "content")

\* C10: a legacy -> modern conversion gives a response that declares a schema
\* a content map with exactly one entry for each media type of the produces
\* list of the operation when it declares one, otherwise of the produces list
\* of the document, otherwise the one entry for JSON; every entry has the
\* schema of the legacy response, its pointers carrying the modern prefix; a
\* response without a schema gets no content map; the description is copied,
\* and is the empty string when the legacy response has none.
C10_ResponseContentPerProduces ==
  (direction = B2A /\ outcome.status = "ok") =>
    ResponseLifted(yamlContent.value,
                   OperationAt(yamlContent.value, "/pets", "get"),
                   ResponseAt(OperationAt(yamlContent.value, "/pets", "get"), "200"),
                   ResponseAt(OperationAt(outcome.output, "/pets", "get"), "200"))

\* an operation producing JSON and XML has been converted: the content map of
\* its response has the two entries, both with the schema of the response
C10_TwoProducedTwoEntries ==
  /\ direction = B2A
  /\ outcome.status = "ok"
  /\ Get(OperationAt(yamlContent.value, "/pets", "get"), "produces")
       = Arr(<<Str(<<JsonType>>), Str(<<"application/xml">>)>>)
  /\ Get(ResponseAt(OperationAt(yamlContent.value, "/pets", "get"), "200"), "schema")
       = LegacyRef("Pet")
  /\ Get(ResponseAt(OperationAt(outcome.output, "/pets", "get"), "200"), "content")
       = Obj(<< <<JsonType, Obj(<< <<"schema", ModernRef("Pet")>> >>)>>,
                <<"application/xml", Obj(<< <<"schema", ModernRef("Pet")>> >>)>> >>)

-----------------------------------------------------------------------------
(* Names *)

\* the names of a map
NamesOf(o) == {Entries(o)[i][1] : i \in 1..Len(Entries(o))}

\* the fields type, name and in of a security scheme
KeyFields(scheme) == <<Get(scheme, "type"), Get(scheme, "name"), Get(scheme, "in")>>

\* C11: a modern -> legacy conversion keeps the names: the names under
\* definitions are the names under components.schemas, the names under
\* securityDefinitions are the names under components.securitySchemes, the
\* path strings are the same, and an apiKey scheme keeps its type, its name
\* and its location.
C11_NamesPreserved ==
  (direction = A2B /\ yamlContent \in NameDocs) =>
    /\ outcome.status = "ok"
    /\ NamesOf(Get(outcome.output, "definitions"))
         = NamesOf(Get(Get(yamlContent.value, "components"), "schemas"))
    /\ NamesOf(Get(outcome.output, "securityDefinitions"))
         = NamesOf(Get(Get(yamlContent.value, "components"), "securitySchemes"))
    /\ NamesOf(Get(outcome.output, "paths")) = NamesOf(Get(yamlContent.value, "paths"))
    /\ \A name \in NamesOf(Get(Get(yamlContent.value, "components"), "securitySchemes")) :
         KeyFields(Get(Get(outcome.output, "securityDefinitions"), name))
           = KeyFields(Get(Get(Get(yamlContent.value, "components"), "securitySchemes"), name))

-----------------------------------------------------------------------------
(* Unions *)

\* the schema of a name in the registry of a modern document
SourceSchema(doc, name) == Get(Get(Get(doc, "components"), "schemas"), name)

\* the schema of a name in the registry of a legacy document
Definition(doc, name) == Get(Get(doc, "definitions"), name)

\* the union keyword of a schema that has one
UnionKey(schema) == IF HasKey(schema, "oneOf") THEN "oneOf" ELSE "anyOf"

\* the members of the union of a schema
MembersOf(schema) == Items(Get(schema, UnionKey(schema)))

IsUnion(schema) == HasKey(schema, "oneOf") \/ HasKey(schema, "anyOf")

\* one member is not the null schema, and some member is
IsNullableUnion(schema) ==
  /\ IsUnion(schema)
  /\ Len(NonNullSchemas(MembersOf(schema))) = 1
  /\ HasNullType(MembersOf(schema))

\* out is member with its pointers rewritten and the nullable marker: the
\* fields are those of member, none of them a union keyword, the marker is
\* set, no pointer has the modern prefix, the description is that of member
IsNullableOf(out, member) ==
  /\ NamesOf(out) = NamesOf(member) \cup {"x-nullable"}
  /\ ~IsUnion(out)
  /\ Get(out, "x-nullable") = Bool(TRUE)
  /\ \A s \in RefTargets(out) : ~Contains(s, ModernPrefix)
  /\ Get(out, "description") = Get(member, "description")

\* C12: a oneOf or anyOf with exactly one member that is not the null schema
\* and at least one that is becomes the fields of that member, pointers
\* rewritten, with x-nullable: true, with no union keyword left and with no
\* note added to the description.
C12_NullableUnionSpliced ==
  (direction = A2B /\ yamlContent \in UnionDocs
     /\ IsNullableUnion(SourceSchema(yamlContent.value, "Owner"))) =>
    /\ outcome.status = "ok"
    /\ IsNullableOf(Definition(outcome.output, "Owner"),
                    NonNullSchemas(MembersOf(SourceSchema(yamlContent.value, "Owner")))[1])

\* the rank of a member in the order boolean > string > integer > number >
\* array > object; a member with no type of these comes after them all
RankOf(member) ==
  IF \E i \in 1..Len(preferredTypeOrders) : IsLit(Get(member, "type"), preferredTypeOrders[i])
    THEN CHOOSE i \in 1..Len(preferredTypeOrders) : IsLit(Get(member, "type"), preferredTypeOrders[i])
    ELSE Len(preferredTypeOrders) + 1

\* the first declared of the members of the best rank
BestRanked(members) ==
  members[CHOOSE i \in 1..Len(members) :
            /\ \A h \in 1..Len(members) : RankOf(members[i]) <= RankOf(members[h])
            /\ \A h \in 1..(i - 1) : RankOf(members[h]) > RankOf(members[i])]

\* several members of the union are not the null schema
IsChoiceUnion(schema) ==
  IsUnion(schema) /\ Len(NonNullSchemas(MembersOf(schema))) >= 2

\* out has the fields of member, up to the prefix of the pointers
HasFieldsOf(out, member) ==
  \A k \in NamesOf(member) \ {"description"} :
    Get(out, k) = RepointedTree(Get(member, k), ModernPrefix, LegacyPrefix)

\* the description says that the schema was simplified
HasSimplificationNote(out) ==
  Get(out, "description").t = "str" /\ Contains(Get(out, "description").s, SimplifiedMarker[1])

\* C16: a oneOf or anyOf with two or more members that are not the null
\* schema is reduced to the member of the best rank in the order boolean >
\* string > integer > number > array > object, the first declared among
\* equals, members with no ranked type (pointers too) last; its fields are
\* spliced into the parent, a simplification note is appended to the
\* description, and x-nullable: true is set exactly when a null member was
\* there.
C16_BestRankedMemberChosen ==
  (direction = A2B /\ yamlContent \in UnionDocs
     /\ IsChoiceUnion(SourceSchema(yamlContent.value, "Owner"))) =>
    /\ outcome.status = "ok"
    /\ HasFieldsOf(Definition(outcome.output, "Owner"),
                   BestRanked(NonNullSchemas(MembersOf(SourceSchema(yamlContent.value, "Owner")))))
    /\ HasSimplificationNote(Definition(outcome.output, "Owner"))
    /\ (Get(Definition(outcome.output, "Owner"), "x-nullable") = Bool(TRUE))
         = HasNullType(MembersOf(SourceSchema(yamlContent.value, "Owner")))

RECURSIVE KeyBelow(_, _)
\* some object among the values nodes, or inside them, has the key k
KeyBelow(nodes, k) ==
  IF nodes = {} THEN FALSE
  ELSE (\E v \in nodes : HasKey(v, k)) \/ KeyBelow(UNION {ChildrenOf(v) : v \in nodes}, k)

\* the key k is used somewhere in a tree
UsesKey(v, k) == KeyBelow({v}, k)

\* the conversion of a returned document back to the modern dialect
RoundTrip(output) == convertSwaggerToOpenApi(TextOf(output))

\* a warning that a union of some schema will be simplified
FlagsSimplification(warning) ==
  \E key \in UnionKeys, schemaName \in {"Pet", "Owner"} : warning = WarnUnion(key, schemaName)

\* C13: for a modern document with a oneOf at any schema position, the modern
\* -> legacy conversion returns at least one warning that flags the
\* simplification of a union, and converting its output back does not give
\* a document with a oneOf.
C13_OneOfFlaggedAndLost ==
  (direction = A2B /\ yamlContent \in SchemaDocs \cup UnionDocs
     /\ UsesKey(yamlContent.value, "oneOf")) =>
    /\ outcome.status = "ok"
    /\ \E i \in 1..Len(outcome.warnings) : FlagsSimplification(outcome.warnings[i])
    /\ RoundTrip(outcome.output).status = "ok"
    /\ ~UsesKey(RoundTrip(outcome.output).output, "oneOf")

\* the keywords of composition the legacy dialect does not have
LostKeywords == {"oneOf", "anyOf", "not"}

\* C17: the registry the modern -> legacy conversion returns has no oneOf, no
\* anyOf and no not, at any depth.
C17_NoUnionKeywordLeft ==
  (direction = A2B /\ yamlContent \in SchemaDocs \cup UnionDocs /\ outcome.status = "ok") =>
    \A k \in LostKeywords : ~UsesKey(Get(outcome.output, "definitions"), k)

-----------------------------------------------------------------------------
(* Security schemes *)

\* the one security scheme of a document of ModernDocs
SchemeOf(doc) == Get(Get(Get(doc, "components"), "securitySchemes"), "auth")

\* a document without its security schemes
WithoutSchemes(doc) == Put(doc, "components", Del(Get(doc, "components"), "securitySchemes"))

\* C14: for a modern document with a security scheme of type openIdConnect
\* the modern -> legacy conversion does not fail, gives a definition of type
\* oauth2 with flow implicit and a description, and returns a warning that
\* the document without the scheme would not get.
C14_OidcDegradedAndWarned ==
  (direction = A2B /\ yamlContent \in ModernDocs
     /\ IsLit(Get(SchemeOf(yamlContent.value), "type"), "openIdConnect")) =>
    /\ outcome.status = "ok"
    /\ Get(Get(Get(outcome.output, "securityDefinitions"), "auth"), "type") = Str(<<"oauth2">>)
    /\ Get(Get(Get(outcome.output, "securityDefinitions"), "auth"), "flow") = Str(<<"implicit">>)
    /\ Truthy(Get(Get(Get(outcome.output, "securityDefinitions"), "auth"), "description"))
    /\ outcome.warnings # detectUnsupportedFeatures(WithoutSchemes(yamlContent.value))

-----------------------------------------------------------------------------
(* The page *)

\* the dialect check of handleConvert fails in this step
RefusedInThisStep ==
  /\ page.awaiting # NoClosure
  /\ page'.awaiting = NoClosure
  /\ Mismatch(page.awaiting.direction, detectSpecType(page.awaiting.yamlContent))

\* C15: the page calls convertSpecification only with a content whose
\* detected dialect is the source dialect of the direction; when the two do
\* not match at the time of the conversion, an error is notified, the result
\* and the warnings stay what they were, and isConverting is false again.
C15_ConvertsOnlyMatchingContent ==
  /\ [](direction # "none" => detectSpecType(yamlContent) = Required(direction))
  /\ [][RefusedInThisStep =>
          /\ page'.toast = ToastError(CannotProceed(page.awaiting.direction))
          /\ page'.swaggerContent = page.swaggerContent
          /\ page'.conversionWarnings = page.conversionWarnings
          /\ ~page'.isConverting
          /\ UNCHANGED <<yamlContent, direction, outcome>>]_vars

\* a conversion has been refused for a pasted legacy document while an
\* earlier result is still shown
C15_RefusedWithResultKept ==
  /\ page.toast = ToastError(CannotProceed(A2B))
  /\ page.yamlContent # NullText
  /\ detectSpecType(page.yamlContent) = "swagger2"
  /\ page.swaggerContent # Null
  /\ ~page.isConverting
  /\ page.awaiting = NoClosure

\* C30: under every interleaving of clear, toggle, upload and paste with a
\* conversion in its delay, whenever a result is displayed there is an input
\* and the result and the warnings displayed are those of the conversion of
\* the input held in the direction selected; a conversion whose input was
\* cleared or whose direction was changed meanwhile does not store its
\* result.
C30_ResultIsOfCurrentInput ==
  page.swaggerContent # Null =>
    /\ page.yamlContent # NullText
    /\ convertSpecification(page.yamlContent, page.direction).status = "ok"
    /\ page.swaggerContent = convertSpecification(page.yamlContent, page.direction).output
    /\ page.conversionWarnings = convertSpecification(page.yamlContent, page.direction).warnings

\* the security definition of a legacy document
DefinitionOf(doc) == Get(Get(doc, "securityDefinitions"), "auth")

\* the name the legacy dialect has for a flow
LegacyFlow(flow) ==
  CASE flow = "implicit" -> "implicit"
    [] flow = "password" -> "password"
    [] flow = "clientCredentials" -> "application"
    [] flow = "authorizationCode" -> "accessCode"

\* the first of implicit, password, clientCredentials, authorizationCode
\* that the flows object has
FirstPresent(flows) ==
  FlowNames[CHOOSE i \in 1..Len(FlowNames) :
              /\ HasKey(flows, FlowNames[i])
              /\ \A h \in 1..(i - 1) : ~HasKey(flows, FlowNames[h])]

\* definition is the oauth2 definition of the flow: its name, its URLs and
\* its scopes, and nothing else
IsDefinitionOfFlow(definition, name, flow) ==
  /\ Get(definition, "type") = S1("oauth2")
  /\ Get(definition, "flow") = S1(LegacyFlow(name))
  /\ Get(definition, "authorizationUrl") = Get(flow, "authorizationUrl")
  /\ Get(definition, "tokenUrl") = Get(flow, "tokenUrl")
  /\ Get(definition, "scopes") = (IF HasKey(flow, "scopes") THEN Get(flow, "scopes") ELSE EmptyObj)
  /\ NamesOf(definition)
       \subseteq {"type", "flow", "scopes", "description"} \cup NamesOf(flow)

\* definition is what the claim says of the scheme
IsDefinitionOf(definition, scheme) ==
  IF IsLit(Get(scheme, "type"), "http") /\ IsLit(Get(scheme, "scheme"), "basic")
    THEN Get(definition, "type") = S1("basic")
  ELSE IF IsLit(Get(scheme, "type"), "http") /\ IsLit(Get(scheme, "scheme"), "bearer")
    THEN /\ Get(definition, "type") = S1("apiKey")
         /\ Get(definition, "name") = S1("Authorization")
         /\ Get(definition, "in") = S1("header")
  ELSE IF IsLit(Get(scheme, "type"), "apiKey")
    THEN /\ Get(definition, "type") = S1("apiKey")
         /\ Get(definition, "name") = Get(scheme, "name")
         /\ Get(definition, "in") = Get(scheme, "in")
  ELSE IsDefinitionOfFlow(definition, FirstPresent(Get(scheme, "flows")),
                          Get(Get(scheme, "flows"), FirstPresent(Get(scheme, "flows"))))

\* C21: convertSecurityScheme maps http basic to type basic, http bearer to
\* apiKey named Authorization in the header, apiKey to apiKey with name and
\* in copied, and oauth2 to oauth2 with the first present of the flows
\* implicit, password, clientCredentials, authorizationCode, named implicit,
\* password, application, accessCode, with the URLs and the scopes of that
\* flow (an empty map when it has none) and no field of another flow.
C21_SchemesMapped ==
  (direction = A2B /\ yamlContent \in SchemeDocs) =>
    /\ outcome.status = "ok"
    /\ convertSecurityScheme(SchemeOf(yamlContent.value)) # Thrown
    /\ IsDefinitionOf(yamlDump(convertSecurityScheme(SchemeOf(yamlContent.value))),
                      SchemeOf(yamlContent.value))
    /\ IsDefinitionOf(DefinitionOf(outcome.output), SchemeOf(yamlContent.value))

\* authorizationCode was declared before password, and password is the flow
\* of the definition
C21_PasswordBeforeAccessCode ==
  /\ direction = A2B /\ yamlContent \in SchemeDocs /\ outcome.status = "ok"
  /\ NamesOf(Get(SchemeOf(yamlContent.value), "flows")) = {"password", "authorizationCode"}
  /\ Entries(Get(SchemeOf(yamlContent.value), "flows"))[1][1] = "authorizationCode"
  /\ Get(DefinitionOf(outcome.output), "flow") = S1("password")
  /\ ~HasKey(DefinitionOf(outcome.output), "authorizationUrl")

-----------------------------------------------------------------------------
(* Intersections *)

IsReferenceMember(member) == Truthy(Get(member, "$ref"))

\* the members of an allOf that are pointers, and those that are not
ReferenceMembers(members) == SelectSeq(members, IsReferenceMember)
InlineMembers(members) == SelectSeq(members, LAMBDA m : ~IsReferenceMember(m))

\* the last of the members that has the property
LastWith(members, property) ==
  members[CHOOSE i \in 1..Len(members) :
            /\ HasKey(Get(members[i], "properties"), property)
            /\ \A h \in (i + 1)..Len(members) : ~HasKey(Get(members[h], "properties"), property)]

PropertyNames(members) ==
  UNION {NamesOf(Get(members[i], "properties")) : i \in 1..Len(members)}

\* properties is the union of the properties of the members, the later
\* member winning, up to the prefix of the pointers; the properties the
\* schema has of its own, next to its allOf, are not counted
HasPropertiesOf(out, members, own) ==
  /\ PropertyNames(members) \subseteq NamesOf(Get(out, "properties"))
  /\ NamesOf(Get(out, "properties")) \subseteq PropertyNames(members) \cup NamesOf(own)
  /\ \A property \in PropertyNames(members) :
       Get(Get(out, "properties"), property)
         = RepointedTree(Get(Get(LastWith(members, property), "properties"), property),
                         ModernPrefix, LegacyPrefix)

RECURSIVE RequiredOf(_)
\* the required lists of the members one after the other
RequiredOf(members) ==
  IF members = <<>> THEN <<>>
  ELSE Items(Get(Head(members), "required")) \o RequiredOf(Tail(members))

\* C18: the rewriter gives a schema with an allOf the union of the properties
\* of the members that are not pointers, a later member overriding an earlier
\* one, and the concatenation of their required lists in member order; the
\* result has an allOf exactly when the source had pointer members, and it is
\* the list of those members, in order, with the prefix rewritten.
C18_AllOfMerged ==
  (direction = A2B /\ yamlContent \in AllOfDocs) =>
    /\ outcome.status = "ok"
    /\ HasPropertiesOf(Definition(outcome.output, "Owner"),
                       InlineMembers(Items(Get(SourceSchema(yamlContent.value, "Owner"), "allOf"))),
                       Get(SourceSchema(yamlContent.value, "Owner"), "properties"))
    /\ Items(Get(Definition(outcome.output, "Owner"), "required"))
         = RequiredOf(InlineMembers(Items(Get(SourceSchema(yamlContent.value, "Owner"), "allOf"))))
    /\ HasKey(Definition(outcome.output, "Owner"), "allOf")
         = (ReferenceMembers(Items(Get(SourceSchema(yamlContent.value, "Owner"), "allOf"))) # <<>>)
    /\ Items(Get(Definition(outcome.output, "Owner"), "allOf"))
         = Items(RepointedTree(
                   Arr(ReferenceMembers(Items(Get(SourceSchema(yamlContent.value, "Owner"), "allOf")))),
                   ModernPrefix, LegacyPrefix))

-----------------------------------------------------------------------------
(* Enumerations *)

\* some value of the enum of a schema is an object or an array
HasComplexEnum(schema) ==
  IsArr(Get(schema, "enum")) /\ SomeComplexItem(Get(schema, "enum"))

\* C19: a schema whose enum has an object or an array among its values, under
\* a primitive type as under array or object, loses its enum in the modern ->
\* legacy conversion, and its description gets a note with the original
\* values of the enum.
C19_ComplexEnumDropped ==
  (direction = A2B /\ yamlContent \in EnumDocs
     /\ HasComplexEnum(SourceSchema(yamlContent.value, "Owner"))) =>
    /\ outcome.status = "ok"
    /\ ~HasKey(Definition(outcome.output, "Owner"), "enum")
    /\ Get(Definition(outcome.output, "Owner"), "description").t = "str"
    /\ Includes(Get(Definition(outcome.output, "Owner"), "description").s,
                Stringify(Get(SourceSchema(yamlContent.value, "Owner"), "enum")))

-----------------------------------------------------------------------------
(* Trees with nothing to rewrite *)

\* C20: on a tree with no pointer of the modern prefix, no schema that uses
\* oneOf, anyOf, allOf or not, and no invalid enum, fixSwagger2References
\* returns a tree equal to its input, also when a property of a properties
\* map is named 'not', 'anyOf', 'oneOf' or 'allOf'; the registry of the
\* returned document has the schema as it was.
C20_PlainTreeUnchanged ==
  (direction = A2B /\ yamlContent \in PlainDocs) =>
    /\ fixSwagger2References(SourceSchema(yamlContent.value, "Owner"))
         = SourceSchema(yamlContent.value, "Owner")
    /\ outcome.status = "ok"
    /\ Definition(outcome.output, "Owner") = SourceSchema(yamlContent.value, "Owner")

-----------------------------------------------------------------------------
(* Servers *)

\* the servers a document declares
ServersOf(doc) == Items(Get(doc, "servers"))

\* the parts of a server URL: the scheme before '://', the host after it, and
\* the path after the host; a URL without '://' is a path
HasScheme(url) == Len(url.s) >= 3 /\ url.s[2] = "://"
SchemeOrDefault(url) == IF HasScheme(url) THEN <<url.s[1]>> ELSE <<"https">>
HostOrNone(url) == IF HasScheme(url) THEN <<url.s[3]>> ELSE <<>>
PathOrDefault(url) ==
  IF ~HasScheme(url) THEN url.s
  ELSE IF Len(url.s) >= 4 THEN SubSeq(url.s, 4, Len(url.s))
  ELSE <<"/">>

\* out has the host, the base path and the scheme of the URL
IsLocatedAt(out, url) ==
  /\ Get(out, "host") = Str(HostOrNone(url))
  /\ Get(out, "basePath") = Str(PathOrDefault(url))
  /\ Get(out, "schemes") = Arr(<<Str(SchemeOrDefault(url))>>)

\* out has the defaults of a document with no servers
IsLocatedNowhere(out) ==
  /\ Get(out, "host") = Str(<<>>)
  /\ Get(out, "basePath") = Str(<<"/">>)
  /\ Get(out, "schemes") = Arr(<<Str(<<"https">>)>>)

\* C22: host, basePath and schemes of the legacy document come from the URL
\* of the first server only, the scheme being https and the path / when the
\* URL has none; with no servers they are '', / and [https]; and the warning
\* that only the first server is used is returned exactly when more than one
\* server is declared.
C22_FirstServerOnly ==
  (direction = A2B /\ yamlContent \in ModernDocs) =>
    /\ outcome.status = "ok"
    /\ IF ServersOf(yamlContent.value) = <<>>
         THEN IsLocatedNowhere(outcome.output)
         ELSE IsLocatedAt(outcome.output, Get(ServersOf(yamlContent.value)[1], "url"))
    /\ (\E i \in 1..Len(outcome.warnings) : outcome.warnings[i] = WarnServers)
         = (Len(ServersOf(yamlContent.value)) > 1)

-----------------------------------------------------------------------------
(* The order of the warnings *)

\* a finding about the document as a whole
IsGlobalFinding(warning) ==
  \/ warning \in {WarnCallbacks, WarnLinks, WarnServers}
  \/ \E schemaName \in {"Pet", "Id"} :
       warning \in {WarnUnion("oneOf", schemaName), WarnUnion("anyOf", schemaName),
                    WarnNot(schemaName), WarnEnum(schemaName)}

\* the place of a finding in the document: <<i, 0>> for the path item i,
\* <<i, j>> for the key j of the path item i
IsFindingAt(doc, warning, place) ==
  /\ place[1] <= Len(Entries(Get(doc, "paths")))
  /\ IF place[2] = 0
       THEN warning = WarnCookiePath(Entries(Get(doc, "paths"))[place[1]][1])
       ELSE /\ place[2] <= Len(Entries(Entries(Get(doc, "paths"))[place[1]][2]))
            /\ warning = WarnCookieOp(Entries(Entries(Get(doc, "paths"))[place[1]][2])[place[2]][1],
                                      Entries(Get(doc, "paths"))[place[1]][1])

Places == (1..2) \X (0..3)

IsLocalFinding(doc, warning) == \E place \in Places : IsFindingAt(doc, warning, place)

PlaceOf(doc, warning) == CHOOSE place \in Places : IsFindingAt(doc, warning, place)

\* the order of the document: paths, then the operations of a path
NotAfter(p, q) == p[1] < q[1] \/ (p[1] = q[1] /\ p[2] <= q[2])

\* the findings of paths and operations are in the order of the document
InDocumentOrder(doc, warnings) ==
  \A i, j \in 1..Len(warnings) :
    (i < j /\ IsLocalFinding(doc, warnings[i]) /\ IsLocalFinding(doc, warnings[j]))
      => NotAfter(PlaceOf(doc, warnings[i]), PlaceOf(doc, warnings[j]))

\* no finding about the whole document comes after one of a path
GlobalFirst(doc, warnings) ==
  \A i, j \in 1..Len(warnings) :
    (i < j /\ IsLocalFinding(doc, warnings[i])) => ~IsGlobalFinding(warnings[j])

\* C23: in the list detectUnsupportedFeatures returns, every finding about
\* the whole document (callbacks, links, named schemas, multiple servers) is
\* before every finding of a path or of an operation, and these are in the
\* order of the document: paths, then the operations of a path.
C23_GlobalFindingsFirst ==
  (direction = A2B /\ yamlContent \in FindingDocs) =>
    /\ outcome.status = "ok"
    /\ outcome.warnings = detectUnsupportedFeatures(yamlContent.value)
    /\ \A i \in 1..Len(outcome.warnings) :
         IsGlobalFinding(outcome.warnings[i]) \/ IsLocalFinding(yamlContent.value, outcome.warnings[i])
    /\ GlobalFirst(yamlContent.value, outcome.warnings)
    /\ InDocumentOrder(yamlContent.value, outcome.warnings)

-----------------------------------------------------------------------------
(* Legacy parameters and request bodies *)

\* the parameters of the one operation of a document of RequestDocs, and
\* those its path item shares
SourceParameters(doc) == Items(Get(OperationAt(doc, "/pets", "post"), "parameters"))
SharedParameters(doc) == Items(Get(Get(Get(doc, "paths"), "/pets"), "parameters"))

\* the media types an operation consumes: its own list when declared,
\* otherwise that of the document, otherwise JSON
Consumed(doc, op) ==
  IF HasKey(op, "consumes") THEN Items(Get(op, "consumes"))
  ELSE IF HasKey(doc, "consumes") THEN Items(Get(doc, "consumes"))
  ELSE <<Str(<<JsonType>>)>>

IsIn(param, location) == IsLit(Get(param, "in"), location)

HasParameterIn(parameters, location) ==
  \E i \in 1..Len(parameters) : IsIn(parameters[i], location)

\* C24: a legacy operation with a body parameter, whatever its other
\* parameters, gets a requestBody whose content has exactly one entry for
\* each media type the operation consumes, each with the schema of the body
\* parameter, required being true exactly when the body parameter is
\* required; and the body parameter is not in the parameter list.
C24_BodyBecomesRequestBody ==
  (direction = B2A /\ yamlContent \in RequestDocs
     /\ HasParameterIn(SourceParameters(yamlContent.value), "body")) =>
    /\ outcome.status = "ok"
    /\ IsContentOf(Get(Get(OperationAt(outcome.output, "/pets", "post"), "requestBody"), "content"),
                   Consumed(yamlContent.value, OperationAt(yamlContent.value, "/pets", "post")),
                   RepointedTree(Get(BodyParams(SourceParameters(yamlContent.value))[1], "schema"),
                                 LegacyPrefix, ModernPrefix))
    /\ Get(Get(OperationAt(outcome.output, "/pets", "post"), "requestBody"), "required")
         = Bool(Get(BodyParams(SourceParameters(yamlContent.value))[1], "required") = Bool(TRUE))
    /\ ~HasParameterIn(Items(Get(OperationAt(outcome.output, "/pets", "post"), "parameters")), "body")


\* the request body an operation gets from its form: one content entry of
\* the media type, an object schema with a property of the type of each
\* parameter, and the names of the required parameters
IsFormOf(requestBody, mediaType, fields) ==
  /\ NamesOf(Get(requestBody, "content")) = {mediaType}
  /\ Len(Entries(Get(requestBody, "content"))) = 1
  /\ Get(Get(Get(Get(requestBody, "content"), mediaType), "schema"), "type") = S1("object")
  /\ NamesOf(Get(Get(Get(Get(requestBody, "content"), mediaType), "schema"), "properties"))
       = {Get(fields[i], "name").s[1] : i \in 1..Len(fields)}
  /\ \A i \in 1..Len(fields) :
       Get(Get(Get(Get(Get(Get(requestBody, "content"), mediaType), "schema"), "properties"),
               Get(fields[i], "name").s[1]), "type")
         = Get(fields[i], "type")
  /\ Items(Get(Get(Get(Get(requestBody, "content"), mediaType), "schema"), "required"))
       = [i \in 1..Len(SelectSeq(fields, LAMBDA f : Get(f, "required") = Bool(TRUE))) |->
            Get(SelectSeq(fields, LAMBDA f : Get(f, "required") = Bool(TRUE))[i], "name")]
  /\ HasKey(Get(Get(Get(requestBody, "content"), mediaType), "schema"), "required")
       = (\E i \in 1..Len(fields) : Get(fields[i], "required") = Bool(TRUE))

\* the media type of a form: multipart when a parameter is a file
FormType(fields) ==
  IF \E i \in 1..Len(fields) : IsLit(Get(fields[i], "type"), "file")
    THEN "multipart/form-data"
    ELSE "application/x-www-form-urlencoded"

\* C25: a legacy operation with formData parameters gets a requestBody with
\* exactly one content entry, multipart/form-data when a formData parameter
\* has type file and application/x-www-form-urlencoded otherwise; its schema
\* is an object with one property for each formData parameter, of the type of
\* the parameter, and its required list is the names of the required formData
\* parameters, absent when none is required.
C25_FormBecomesRequestBody ==
  (direction = B2A /\ yamlContent \in RequestDocs
     /\ HasParameterIn(SourceParameters(yamlContent.value), "formData")) =>
    /\ outcome.status = "ok"
    /\ IsFormOf(Get(OperationAt(outcome.output, "/pets", "post"), "requestBody"),
                FormType(FormDataParams(SourceParameters(yamlContent.value))),
                FormDataParams(SourceParameters(yamlContent.value)))

\* a form with a required file and an optional note has been converted: the
\* entry is multipart, and the file is the one required property
C25_FileMakesMultipart ==
  /\ direction = B2A /\ yamlContent \in RequestDocs /\ outcome.status = "ok"
  /\ SourceParameters(yamlContent.value) = <<NoteField, FileField>>
  /\ Get(Get(Get(Get(Get(OperationAt(outcome.output, "/pets", "post"), "requestBody"),
                     "content"), "multipart/form-data"), "schema"), "required")
       = Arr(<<S1("photo")>>)


TypeFields == {"type", "format", "enum", "items"}

\* converted is the legacy parameter source in the modern dialect: a pointer
\* stays a pointer, with the modern prefix; of any other parameter the type,
\* the format, the enum and, of an array, the items are in its schema and no
\* longer on the parameter, and the schema is nullable when the parameter is
\* declared not required
IsLiftedParameter(source, converted) ==
  IF HasKey(source, "$ref")
    THEN converted = RepointedTree(source, LegacyPrefix, ModernPrefix)
    ELSE /\ Get(converted, "name") = Get(source, "name")
         /\ Get(converted, "in") = Get(source, "in")
         /\ NamesOf(converted) \cap TypeFields = {}
         /\ \A k \in {"type", "format", "enum"} :
              Get(Get(converted, "schema"), k) = Get(source, k)
         /\ IsLit(Get(source, "type"), "array")
              => Get(Get(converted, "schema"), "items") = Get(source, "items")
         /\ Get(source, "required") = Bool(FALSE)
              => Get(Get(converted, "schema"), "nullable") = Bool(TRUE)

\* C26: a legacy parameter outside body and formData and without a pointer
\* has its type, format, enum and, for an array, items moved into a schema
\* and removed from the parameter, and a schema with nullable: true whenever
\* it has required: false; a parameter with a pointer is left as it is, with
\* the prefix of the pointer rewritten.
C26_ParametersLifted ==
  (direction = B2A /\ yamlContent \in RequestDocs) =>
    /\ outcome.status = "ok"
    /\ Len(Items(Get(OperationAt(outcome.output, "/pets", "post"), "parameters")))
         = Len(OtherParams(SourceParameters(yamlContent.value)))
    /\ \A i \in 1..Len(OtherParams(SourceParameters(yamlContent.value))) :
         IsLiftedParameter(OtherParams(SourceParameters(yamlContent.value))[i],
                           Items(Get(OperationAt(outcome.output, "/pets", "post"), "parameters"))[i])
    /\ Len(SharedParameters(outcome.output)) = Len(SharedParameters(yamlContent.value))
    /\ \A i \in 1..Len(SharedParameters(yamlContent.value)) :
         (~IsIn(SharedParameters(yamlContent.value)[i], "body")
            /\ ~IsIn(SharedParameters(yamlContent.value)[i], "formData"))
           => IsLiftedParameter(SharedParameters(yamlContent.value)[i],
                                SharedParameters(outcome.output)[i])

\* the optional limit and a pointer have been converted: the limit has a
\* nullable integer schema, the pointer the modern prefix
C26_OptionalIsNullable ==
  /\ direction = B2A /\ yamlContent \in RequestDocs /\ outcome.status = "ok"
  /\ SourceParameters(yamlContent.value) = <<OptionalLimit, SharedParameter>>
  /\ Items(Get(OperationAt(outcome.output, "/pets", "post"), "parameters"))
       = << Obj(<< <<"name", S1("limit")>>, <<"in", S1("query")>>, <<"required", Bool(FALSE)>>,
                   <<"schema", Obj(<< <<"type", S1("integer")>>, <<"format", S1("int32")>>,
                                      <<"nullable", Bool(TRUE)>> >>)>> >>),
            ModernRef("Pet") >>


\* C27: in a document the legacy -> modern conversion returns, no parameter
\* list, of an operation or of a path item, has a parameter located in body
\* or in formData.
C27_NoBodyOrFormParameter ==
  (direction = B2A /\ yamlContent \in RequestDocs /\ outcome.status = "ok") =>
    \A location \in {"body", "formData"} :
      /\ ~HasParameterIn(Items(Get(OperationAt(outcome.output, "/pets", "post"), "parameters")),
                         location)
      /\ ~HasParameterIn(SharedParameters(outcome.output), location)

\* C29: for a legacy source the warning about a body parameter with non-JSON
\* content types is returned for an operation exactly when the operation has
\* a body parameter and application/json is not among the media types it
\* consumes (its own consumes, otherwise the global consumes, otherwise
\* application/json).
C29_BodyTypesWarnedWhenNoJson ==
  (direction = B2A /\ yamlContent \in RequestDocs) =>
    /\ outcome.status = "ok"
    /\ (\E i \in 1..Len(outcome.warnings) : outcome.warnings[i] = WarnBodyTypes("post", "/pets"))
         = (/\ HasParameterIn(SourceParameters(yamlContent.value), "body")
            /\ ~\E i \in 1..Len(Consumed(yamlContent.value,
                                         OperationAt(yamlContent.value, "/pets", "post"))) :
                  Consumed(yamlContent.value,
                           OperationAt(yamlContent.value, "/pets", "post"))[i] = S1(JsonType))

-----------------------------------------------------------------------------
(* Path items *)

HttpMethods == {"get", "put", "post", "delete", "options", "head", "patch", "trace"}

\* every operation object of the path item converted is under a method under
\* which the path item source has an operation
OperationsFrom(source, converted) ==
  \A i \in 1..Len(Entries(converted)) :
    IsObj(Entries(converted)[i][2]) =>
      /\ Entries(converted)[i][1] \in HttpMethods
      /\ IsObj(Get(source, Entries(converted)[i][1]))

\* C28: in both directions a path item of the output has an operation object
\* only under a key that is an HTTP method under which the source path item
\* has an operation; the other keys of a source path item (summary,
\* description, servers, extensions, entries with no value) give no operation
\* and do not make the conversion fail.
C28_OperationsUnderMethodsOnly ==
  (direction # "none" /\ yamlContent \in KeyedDocs
     /\ detectSpecType(yamlContent) = Required(direction)) =>
    /\ outcome.status = "ok"
    /\ OperationsFrom(Get(Get(yamlContent.value, "paths"), "/pets"),
                      Get(Get(outcome.output, "paths"), "/pets"))

====
